---- MODULE Spec2Model ----
(***************************************************************************)
(* Model of the fire-prediction pipeline of backend/ml_model.py:            *)
(* FirePredictionModel (feature builder, target builder, risk model,       *)
(* grid predictor) and the persisted model bundle.                         *)
(*                                                                         *)
(* Numbers.  Python floats are IEEE-754 binary64.  Where the code's result *)
(* depends on rounding (numpy.arange in generate_grid_predictions) the     *)
(* model computes in binary64 exactly: a finite non-negative double is the *)
(* dyadic rational m * 2^e, held as [m |-> limbs, e |-> exponent] with m   *)
(* odd (or zero, with e = 0), so that equal values are equal records.      *)
(* Probabilities are held in thousandths (0.7 is 700): the thresholds the  *)
(* code compares against are multiples of 0.001 and decimal-to-double      *)
(* conversion is monotone, so the comparisons agree.                       *)
(***************************************************************************)
EXTENDS Integers, Sequences, FiniteSets, TLC

(***************************************************************************)
(* Natural numbers of arbitrary size: sequences of limbs in base 2^15,     *)
(* least significant first, no leading (most significant) zero limb.       *)
(***************************************************************************)
LimbBits == 15
Base == 2 ^ LimbBits

LimbAt(a, i) == IF i >= 1 /\ i <= Len(a) THEN a[i] ELSE 0

LTrim(a) ==
    IF \A i \in 1..Len(a) : a[i] = 0 THEN << >>
    ELSE SubSeq(a, 1, CHOOSE i \in 1..Len(a) :
                          a[i] # 0 /\ \A j \in (i + 1)..Len(a) : a[j] = 0)

\* n < 2^31
LFromNat(n) == LTrim(<< n % Base, (n \div Base) % Base, n \div (Base * Base) >>)

\* a < 2^31
LToNat(a) == LimbAt(a, 1) + (Base * LimbAt(a, 2)) + (Base * Base * LimbAt(a, 3))

\* a + b: the carry into place i comes from a place below that overflows,
\* through places that pass it on
LAdd(a, b) ==
    LET n    == (IF Len(a) > Len(b) THEN Len(a) ELSE Len(b)) + 1
        s(i) == LimbAt(a, i) + LimbAt(b, i)
        c(i) == IF \E j \in 1..(i - 1) :
                       s(j) >= Base /\ \A k \in (j + 1)..(i - 1) : s(k) = Base - 1
                THEN 1 ELSE 0
    IN  LTrim(<< >> \o [i \in 1..n |-> (s(i) + c(i)) % Base])

\* a - b for a >= b, with the borrow found the same way
LSub(a, b) ==
    LET d(i) == LimbAt(a, i) - LimbAt(b, i)
        c(i) == IF \E j \in 1..(i - 1) :
                       d(j) < 0 /\ \A k \in (j + 1)..(i - 1) : d(k) = 0
                THEN 1 ELSE 0
    IN  LTrim(<< >> \o [i \in 1..Len(a) |-> (d(i) - c(i)) % Base])

\* -1, 0, 1 as a < b, a = b, a > b
LCmp(a, b) ==
    IF Len(a) > Len(b) THEN 1
    ELSE IF Len(a) < Len(b) THEN -1
    ELSE IF a = b THEN 0
    ELSE LET i == CHOOSE k \in 1..Len(a) :
                      a[k] # b[k] /\ \A j \in (k + 1)..Len(a) : a[j] = b[j]
         IN  IF a[i] > b[i] THEN 1 ELSE -1

\* a * c for c < 2^15: the low and the high halves of the limb products
LMulSmall(a, c) ==
    LAdd(LTrim(<< >> \o [i \in 1..Len(a) |-> (a[i] * c) % Base]),
         LTrim(<< >> \o [i \in 1..(Len(a) + 1) |-> (LimbAt(a, i - 1) * c) \div Base]))

\* a * 2^k
LShl(a, k) ==
    LET w == k \div LimbBits
        p == 2 ^ (k % LimbBits)
    IN  LTrim(<< >> \o [i \in 1..(Len(a) + w + 1) |->
                  ((LimbAt(a, i - w) * p) % Base)
                  + ((LimbAt(a, i - w - 1) * p) \div Base)])

\* a \div 2^k
LShr(a, k) ==
    LET w == k \div LimbBits
        s == k % LimbBits
        n == IF Len(a) > w THEN Len(a) - w ELSE 0
    IN  LTrim(<< >> \o [i \in 1..n |->
                  (LimbAt(a, i + w) \div (2 ^ s))
                  + ((LimbAt(a, i + w + 1) % (2 ^ s)) * (2 ^ (LimbBits - s)))])

\* bit i of a, bit 0 the least significant
LBit(a, i) == (LimbAt(a, i \div LimbBits + 1) \div (2 ^ (i % LimbBits))) % 2

\* the number of bits of a
LBitLen(a) ==
    IF a = << >> THEN 0
    ELSE (LimbBits * (Len(a) - 1))
         + (CHOOSE k \in 1..LimbBits :
                2 ^ (k - 1) <= a[Len(a)] /\ a[Len(a)] < 2 ^ k)

\* the low k bits of a are all zero
LLowZero(a, k) == LShl(LShr(a, k), k) = a

\* long division of a by b: the bits of a are brought down most significant
\* first, bit hi down to bit lo; st is [q |-> quotient so far, r |-> remainder]
DivStep(st, bit, b) ==
    LET r2 == LAdd(LShl(st.r, 1), LFromNat(bit))
        q2 == LShl(st.q, 1)
    IN  IF LCmp(r2, b) >= 0
        THEN [q |-> LAdd(q2, << 1 >>), r |-> LSub(r2, b)]
        ELSE [q |-> q2, r |-> r2]

\* the bits hi down to lo of a, one half after the other; the first half's
\* result is looked at (its remainder is below b) before the second starts
RECURSIVE DivRange(_, _, _, _, _)
DivRange(st, a, b, hi, lo) ==
    IF hi < lo THEN st
    ELSE IF hi = lo THEN DivStep(st, LBit(a, hi), b)
    ELSE LET mid  == (hi + lo + 1) \div 2
             left == DivRange(st, a, b, hi, mid)
         IN  IF LCmp(left.r, b) < 0
             THEN DivRange(left, a, b, mid - 1, lo)
             ELSE left

\* <<a \div c, a % c>> for 0 < c < 2^15, limb by limb from the top
LDivSmall(a, c) ==
    LET n == Len(a)
        rem[i \in 1..(n + 1)] ==
            IF i = n + 1 THEN 0 ELSE ((rem[i + 1] * Base) + a[i]) % c
    IN  << LTrim(<< >> \o [i \in 1..n |-> ((rem[i + 1] * Base) + a[i]) \div c]),
           LFromNat(rem[1]) >>

\* <<a \div b, a % b>> for b > 0
LDivMod(a, b) ==
    IF Len(b) = 1 THEN LDivSmall(a, b[1])
    ELSE LET st == DivRange([q |-> << >>, r |-> << >>], a, b, LBitLen(a) - 1, 0)
         IN  << st.q, st.r >>

(***************************************************************************)
(* binary64, non-negative finite values, round to nearest, ties to even.   *)
(***************************************************************************)
Mantissa == 53

\* the number of trailing zero bits of a # 0
LTrailingZeros(a) ==
    LET w == CHOOSE i \in 1..Len(a) : a[i] # 0 /\ \A j \in 1..(i - 1) : a[j] = 0
        s == CHOOSE k \in 0..(LimbBits - 1) :
                 a[w] % (2 ^ (k + 1)) # 0 /\ a[w] % (2 ^ k) = 0
    IN  (LimbBits * (w - 1)) + s

Norm(m, e) ==
    IF m = << >> THEN [m |-> << >>, e |-> 0]
    ELSE LET z == LTrailingZeros(m) IN [m |-> LShr(m, z), e |-> e + z]

Round53(m, e) ==
    IF LBitLen(m) <= Mantissa THEN Norm(m, e)
    ELSE LET k      == LBitLen(m) - Mantissa
             kept   == LShr(m, k)
             guard  == LBit(m, k - 1)
             sticky == ~LLowZero(m, k - 1)
             up     == guard = 1 /\ (sticky \/ LBit(kept, 0) = 1)
         IN  Norm(IF up THEN LAdd(kept, << 1 >>) ELSE kept, e + k)

\* int -> double for 0 <= n < 2^31 (exact)
FromInt(n) == Norm(LFromNat(n), 0)

\* the two mantissas brought to the smaller exponent
Aligned(x, y) ==
    LET e == IF x.e < y.e THEN x.e ELSE y.e
    IN  [a |-> LShl(x.m, x.e - e), b |-> LShl(y.m, y.e - e), e |-> e]

FAdd(x, y) == LET al == Aligned(x, y) IN Round53(LAdd(al.a, al.b), al.e)

\* x - y for x >= y
FSub(x, y) == LET al == Aligned(x, y) IN Round53(LSub(al.a, al.b), al.e)

\* -1, 0, 1 as x < y, x = y, x > y
FCmp(x, y) == LET al == Aligned(x, y) IN LCmp(al.a, al.b)

\* i * x for an integer 0 <= i < 2^15 (i converts exactly)
FMulInt(i, x) == Round53(LMulSmall(x.m, i), x.e)

\* x / y for y > 0: the quotient is developed to at least Mantissa + 2 bits
\* and a last bit records a non-zero remainder
FDiv(x, y) ==
    IF x.m = << >> THEN x
    ELSE LET want == Mantissa + 2 + LBitLen(y.m) - LBitLen(x.m)
             s    == IF want > 0 THEN want ELSE 0
             num  == LShl(x.m, s)
             qr   == IF Len(num) > 0 THEN LDivMod(num, y.m) ELSE << num, num >>
             q    == LAdd(LShl(qr[1], 1), IF qr[2] = << >> THEN << >> ELSE << 1 >>)
         IN  Round53(q, x.e - y.e - s - 1)

\* the least integer >= x, for x < 2^31
FCeil(x) ==
    IF x.e >= 0 THEN LToNat(LShl(x.m, x.e))
    ELSE IF x.m = << >> THEN 0
    ELSE LToNat(LShr(x.m, 0 - x.e)) + 1

\* the double nearest to the decimal n / 100, as float("...") yields it
Dec(n) == FDiv(FromInt(n), FromInt(100))

\* round half to even to an integer-valued double (numpy round)
FRound(x) ==
    IF x.e >= 0 THEN x
    ELSE LET k     == 0 - x.e
             fl    == LShr(x.m, k)
             guard == LBit(x.m, k - 1)
             up    == guard = 1 /\ (~LLowZero(x.m, k - 1) \/ LBit(fl, 0) = 1)
         IN  Norm(IF up THEN LAdd(fl, << 1 >>) ELSE fl, 0)

(***************************************************************************)
(* Calendar: a datetime is [year, month, day, hour, minute].               *)
(***************************************************************************)
IsLeap(y) == (y % 4 = 0 /\ y % 100 # 0) \/ y % 400 = 0

DaysInMonth(y, m) ==
    IF m = 2 THEN (IF IsLeap(y) THEN 29 ELSE 28)
    ELSE IF m \in {4, 6, 9, 11} THEN 30 ELSE 31

\* the days of the year y before month m
DaysBefore(y, m) ==
    << 0, 31, 59, 90, 120, 151, 181, 212, 243, 273, 304, 334 >>[m]
    + (IF m > 2 /\ IsLeap(y) THEN 1 ELSE 0)

\* datetime.timetuple().tm_yday, Series.dt.dayofyear
DayOfYear(dt) == DaysBefore(dt.year, dt.month) + dt.day

\* days since 0001-01-01 (that day is 1), as date.toordinal()
Ordinal(dt) ==
    LET y == dt.year - 1
    IN  (365 * y) + (y \div 4) - (y \div 100) + (y \div 400) + DayOfYear(dt)

\* datetime.weekday(): Monday is 0
Weekday(dt) == (Ordinal(dt) + 6) % 7

(***************************************************************************)
(* The model instance, the persisted bundle and the clock.                 *)
(***************************************************************************)
VARIABLES
    model,            \* self.model: None or a fitted estimator
    scaler,           \* self.scaler
    feature_columns,  \* self.feature_columns
    model_version,    \* self.model_version
    disk,             \* models/fire_prediction_model.pkl: Absent or a bundle
    store,            \* the fire_detections table: what a query for all rows
                      \* gives, or the rows and how often each is stored
    pc,               \* where a train_model call in progress stands, or Idle
    now,              \* datetime.now(): an index into Instants
    op,               \* the operation that ran last
    arg,              \* its argument
    ret,              \* what it returned
    raised,           \* the exception it ended in, or NoExc
    log               \* the calls it made, in order

vars == << model, scaler, feature_columns, model_version, disk, store, pc,
           now, op, arg, ret, raised, log >>

\* Python's None, a missing file, no exception
None   == [kind |-> "None"]
Absent == [kind |-> "absent"]
NoExc  == ""

\* no train_model call is in progress
Idle == "idle"

\* the column list prepare_features selects
FeatureColumns ==
    << "latitude", "longitude", "month", "day_of_year", "hour",
       "brightness_normalized", "confidence_normalized", "frp_normalized",
       "historical_count", "is_weekend", "is_peak_season", "is_post_harvest" >>

\* the instance as a record
Self == [model |-> model, scaler |-> scaler,
         feature_columns |-> feature_columns, model_version |-> model_version]

\* FirePredictionModel.__init__
NewInstance ==
    [model |-> None,
     scaler |-> [fitted |-> FALSE, n |-> 0, seed |-> 0],
     feature_columns |-> << >>,
     model_version |-> "1.0"]

\* bundles a deployment may hold on disk: NumBundles distinct fitted pairs
NumBundles == 2

Bundle(s) ==
    [model |-> [kind |-> "RandomForestRegressor", seed |-> s],
     scaler |-> [fitted |-> TRUE, n |-> Len(FeatureColumns), seed |-> s],
     feature_columns |-> FeatureColumns,
     model_version |-> "1.0"]

Bundles == { Bundle(s) : s \in 1..NumBundles }

\* the instants datetime.now() passes through
Instants ==
    << [year |-> 2024, month |-> 3,  day |-> 9,  hour |-> 10, minute |-> 30],
       [year |-> 2024, month |-> 7,  day |-> 15, hour |-> 23, minute |-> 5],
       [year |-> 2024, month |-> 11, day |-> 4,  hour |-> 0,  minute |-> 0] >>

(***************************************************************************)
(* The fitted scaler and estimator are sklearn objects; what they compute  *)
(* is outside the repository.  They are modelled as one fixed function per *)
(* fitted pair, from the feature row to a value in thousandths that takes  *)
(* values below 0, above 1 and on both sides of every threshold.           *)
(***************************************************************************)
Outputs == << 0, 399, 400, 699, 700, 1000, 299, 300, -50, 1100, 150, 550, 850 >>

\* a number of the row as a natural number
KeyOf(v) ==
    IF v.t = "f"
    THEN LimbAt(v.v.m, 1) + LimbAt(v.v.m, 2) + LimbAt(v.v.m, 3)
         + LimbAt(v.v.m, 4) + v.v.e + 2000
    ELSE IF v.t = "i" THEN v.v
    ELSE IF v.v THEN 1 ELSE 0

RECURSIVE RowKey(_, _)
RowKey(X, i) == IF i > Len(X) THEN 0 ELSE (i * KeyOf(X[i])) + RowKey(X, i + 1)

\* StandardScaler.transform on one row
ScalerTransform(sc, X) ==
    IF ~sc.fitted THEN [raised |-> "NotFittedError"]
    ELSE IF sc.n # Len(X) THEN [raised |-> "ValueError"]
    ELSE [raised |-> NoExc, value |-> [row |-> X, by |-> sc.seed]]

\* RandomForestRegressor.predict on one scaled row
ModelPredict(est, XS) ==
    Outputs[((RowKey(XS.row, 1) + (5 * est.seed) + (3 * XS.by)) % Len(Outputs)) + 1]

\* the placeholder values of predict_fire_probability, in hundredths
PlaceholderValues ==
    [brightness_normalized |-> 50, confidence_normalized |-> 70,
     frp_normalized |-> 50, historical_count |-> 100]

F(x) == [t |-> "f", v |-> x]
I(n) == [t |-> "i", v |-> n]
B(b) == [t |-> "b", v |-> b]

(***************************************************************************)
(* FirePredictionModel: load_model, predict_fire_probability               *)
(***************************************************************************)
\* load_model that makes up an estimator when no bundle is found
load_model_invents(self, dsk) ==
    IF dsk = Absent
    THEN [self |-> [self EXCEPT !.model = [kind |-> "RandomForestRegressor",
                                           seed |-> 0]],
          ret |-> FALSE]
    ELSE [self |-> [model |-> dsk.model, scaler |-> dsk.scaler,
                    feature_columns |-> dsk.feature_columns,
                    model_version |-> dsk.model_version],
          ret |-> TRUE]

\* the result is [self, ret]
load_model(self, dsk) ==
    IF dsk = Absent
    THEN [self |-> self, ret |-> FALSE]
    ELSE [self |-> [model |-> dsk.model, scaler |-> dsk.scaler,
                    feature_columns |-> dsk.feature_columns,
                    model_version |-> dsk.model_version],
          ret |-> TRUE]

\* the tiers with their thresholds excluded
RiskLevel_strict(probability) ==
    IF probability > 700 THEN "HIGH"
    ELSE IF probability > 400 THEN "MEDIUM"
    ELSE "LOW"

\* the risk tier of a probability, in thousandths
RiskLevel(probability) ==
    IF probability >= 700 THEN "HIGH"
    ELSE IF probability >= 400 THEN "MEDIUM"
    ELSE "LOW"

\* placeholder entries taken from the number of records in the store
Placeholder_from_store ==
    [c \in DOMAIN PlaceholderValues |-> F(FromInt(store.n))]

\* the placeholder entries of the feature row
Placeholder == [c \in DOMAIN PlaceholderValues |-> F(Dec(PlaceholderValues[c]))]

\* the feature row predict builds for (lat, lon) at the instant dt
PredictFeatures(lat, lon, dt) ==
    [latitude |-> F(lat),
     longitude |-> F(lon),
     month |-> I(dt.month),
     day_of_year |-> I(DayOfYear(dt)),
     hour |-> I(dt.hour),
     is_weekend |-> B(Weekday(dt) >= 5),
     is_peak_season |-> B(dt.month \in {3, 4, 5, 10, 11, 12}),
     is_post_harvest |-> B(dt.month \in {4, 5, 11, 12})]
    @@ Placeholder

\* the dict predict returns for a probability
Prediction(self, probability, prediction_days) ==
    [probability |-> probability,
     risk_level |-> RiskLevel(probability),
     prediction_days |-> prediction_days,
     model_version |-> self.model_version]

\* model.predict on the scaled row XS = [raised, value] and the return
PredictScaled(self, calls, XS, prediction_days) ==
    IF XS.raised # NoExc
    THEN [self |-> self, ret |-> None, raised |-> XS.raised, log |-> calls]
    ELSE [self |-> self,
          ret |-> Prediction(self, ModelPredict(self.model, XS.value),
                             prediction_days),
          raised |-> NoExc, log |-> calls]

\* predict after the load attempt: the second test of self.model, the row
\* X in the order of self.feature_columns and scaler.transform
PredictRow(self, calls, feats, prediction_days) ==
    IF self.model = None
    THEN [self |-> self, ret |-> [error |-> "Model not trained"],
          raised |-> NoExc, log |-> calls]
    ELSE IF \E i \in 1..Len(self.feature_columns) :
                self.feature_columns[i] \notin DOMAIN feats
    THEN [self |-> self, ret |-> None, raised |-> "KeyError", log |-> calls]
    ELSE PredictScaled(self, calls,
                       ScalerTransform(self.scaler,
                           [i \in 1..Len(self.feature_columns) |->
                               feats[self.feature_columns[i]]]),
                       prediction_days)

\* the result is [self, ret, raised, log]
predict_fire_probability(self, dsk, dt, lat, lon, prediction_days) ==
    PredictRow(IF self.model = None THEN load_model(self, dsk).self ELSE self,
               IF self.model = None THEN << [call |-> "load_model"] >>
               ELSE << >>,
               PredictFeatures(lat, lon, dt), prediction_days)

(***************************************************************************)
(* generate_grid_predictions                                               *)
(***************************************************************************)
\* len(np.arange(start, stop, step)) for stop > start
ArangeLen(start, stop, step) == FCeil(FDiv(FSub(stop, start), step))

\* np.arange(start, stop, step): the first two entries are start and
\* start + step, and entry i is start + i * delta, delta their difference
Arange(start, stop, step) ==
    LET n     == ArangeLen(start, stop, step)
        next  == FAdd(start, step)
        delta == FSub(next, start)
    IN  << >> \o [i \in 1..n |->
                    IF i = 1 THEN start
                    ELSE IF i = 2 THEN next
                    ELSE FAdd(start, FMulInt(i - 1, delta))]

\* a table entry, or what is computed when the table has none
Lookup(tbl, k, computed) == IF k \in DOMAIN tbl THEN tbl[k] ELSE computed

\* the values of a table
Image(tbl) == { tbl[k] : k \in DOMAIN tbl }

\* bounds and grid_size callers pass, in hundredths of a degree, as
\* <<lat_min, lat_max, lon_min, lon_max, grid_size>>: steps 0.1, 0.5 and
\* 0.25, the last with lat_min = lat_max
GridHundredths ==
    << << 2000, 2020, 7800, 7810, 10 >>,
       << 2000, 2100, 7800, 7850, 50 >>,
       << 2000, 2050, 7800, 7875, 25 >>,
       << 2000, 2000, 7800, 7850, 50 >> >>

\* the arguments of generate_grid_predictions, from five doubles
Grid(d) ==
    [bounds |-> [lat_min |-> d[1], lat_max |-> d[2],
                 lon_min |-> d[3], lon_max |-> d[4]],
     grid_size |-> d[5]]

GridArgs ==
    << >> \o [g \in DOMAIN GridHundredths |->
                Grid(<< >> \o [k \in 1..5 |-> Dec(GridHundredths[g][k])])]

\* the arguments of the two np.arange calls for g
Axes(g) ==
    { << g.bounds.lat_min, FAdd(g.bounds.lat_max, g.grid_size), g.grid_size >>,
      << g.bounds.lon_min, FAdd(g.bounds.lon_max, g.grid_size), g.grid_size >> }

\* Arange, computed once for each axis of GridArgs
ArangeMemo ==
    [a \in UNION { Axes(GridArgs[g]) : g \in DOMAIN GridHundredths }
        |-> Arange(a[1], a[2], a[3])]

np_arange(start, stop, step) ==
    Lookup(ArangeMemo, << start, stop, step >>, Arange(start, stop, step))

\* the two loops nested the other way round
LatticePoints_by_lon(lat_points, lon_points) ==
    LET nlat == Len(lat_points)
    IN  << >> \o [k \in 1..(nlat * Len(lon_points)) |->
                    << lat_points[((k - 1) % nlat) + 1],
                       lon_points[((k - 1) \div nlat) + 1] >>]

\* for lat in lat_points: for lon in lon_points: the points in loop order
LatticePoints(lat_points, lon_points) ==
    LET nlon == Len(lon_points)
    IN  << >> \o [k \in 1..(Len(lat_points) * nlon) |->
                    << lat_points[((k - 1) \div nlon) + 1],
                       lon_points[((k - 1) % nlon) + 1] >>]

\* the filter without its threshold
HighConfidence_any(pred) == "error" \notin DOMAIN pred

\* 'error' not in pred and pred['probability'] >= 0.3
HighConfidence(pred) == "error" \notin DOMAIN pred /\ pred.probability >= 300

\* {'latitude': lat, 'longitude': lon, **pred}
GridEntry(lat, lon, pred) ==
    [latitude |-> lat, longitude |-> lon, probability |-> pred.probability,
     risk_level |-> pred.risk_level, prediction_days |-> pred.prediction_days,
     model_version |-> pred.model_version]

\* the loop over pts from pts[k] on; st is [self, predictions, log], the
\* log taking every call with what it returned
RECURSIVE GridLoop(_, _, _, _, _)

\* the loop body for pts[k], r the result of its predict call
GridStep(st, dsk, dt, pts, k, r) ==
    IF r.raised # NoExc
    THEN [self |-> r.self, ret |-> None, raised |-> r.raised,
          log |-> st.log \o r.log
                  \o << [call |-> "predict_fire_probability",
                         latitude |-> pts[k][1], longitude |-> pts[k][2],
                         raised |-> r.raised, ret |-> r.ret] >>]
    ELSE GridLoop([self |-> r.self,
                   predictions |->
                       IF HighConfidence(r.ret)
                       THEN Append(st.predictions,
                                   GridEntry(pts[k][1], pts[k][2], r.ret))
                       ELSE st.predictions,
                   log |-> st.log \o r.log
                           \o << [call |-> "predict_fire_probability",
                                  latitude |-> pts[k][1],
                                  longitude |-> pts[k][2],
                                  raised |-> r.raised, ret |-> r.ret] >>],
                  dsk, dt, pts, k + 1)

GridLoop(st, dsk, dt, pts, k) ==
    IF k > Len(pts)
    THEN [self |-> st.self, ret |-> st.predictions, raised |-> NoExc,
          log |-> st.log]
    ELSE GridStep(st, dsk, dt, pts, k,
                  predict_fire_probability(st.self, dsk, dt,
                                           pts[k][1], pts[k][2], 7))

\* the result is [self, ret, raised, log]; every call of one run reads the
\* clock at the instant dt
generate_grid_predictions(self, dsk, dt, bounds, grid_size) ==
    GridLoop([self |-> self, predictions |-> << >>, log |-> << >>], dsk, dt,
             LatticePoints(np_arange(bounds.lat_min,
                                     FAdd(bounds.lat_max, grid_size),
                                     grid_size),
                           np_arange(bounds.lon_min,
                                     FAdd(bounds.lon_max, grid_size),
                                     grid_size)),
             1)

(***************************************************************************)
(* The feature builder.  A DataFrame is the sequence of its rows, each a   *)
(* record; its columns are the fields of the rows.  A missing number is    *)
(* NaN.  A detection is                                                    *)
(*   [latitude, longitude, brightness, frp : double or NaN,                *)
(*    confidence : 0..100, acq_date : [year, month, day],                  *)
(*    acq_time : the digits of the HHMM string]                            *)
(***************************************************************************)
NaN == [kind |-> "nan"]
Inf == [kind |-> "inf"]
Zero == FromInt(0)
One == FromInt(1)

Columns(df) == IF df = << >> THEN {} ELSE DOMAIN df[1]

\* Series / scalar in pandas: no exception, 0/0 is NaN and x/0 is inf
PDiv(x, y) ==
    IF x = NaN \/ y = NaN THEN NaN
    ELSE IF y = Zero THEN (IF x = Zero THEN NaN ELSE Inf)
    ELSE IF x = Inf THEN Inf
    ELSE FDiv(x, y)

\* the distinct entries of a Series
Values(s) == { s[i] : i \in 1..Len(s) }

\* Series.max(): NaN entries are skipped; NaN when nothing is left
SeriesMax(s) ==
    LET present == Values(s) \ {NaN}
    IN  IF present = {} THEN NaN
        ELSE CHOOSE v \in present : \A w \in present : FCmp(v, w) >= 0

\* a fillna that fills nothing
FillNa_none(v) == v

\* fillna(0) on one value
FillNa(v) == IF v = NaN THEN Zero ELSE v

\* a parse that puts midnight of the first of January in the place of what
\* it cannot read
ParseDatetime_defaulting(d, t) ==
    [raised |-> NoExc,
     value |-> [year |-> d.year, month |-> 1, day |-> 1, hour |-> 0,
                minute |-> 0]]

\* pd.to_datetime(acq_date + ' ' + acq_time[:2] + ':' + acq_time[2:]) on one
\* row: [raised, value]
ParseDatetime(d, t) ==
    LET hh == IF Len(t) >= 2 THEN (10 * t[1]) + t[2] ELSE 99
        mm == IF Len(t) = 4 THEN (10 * t[3]) + t[4] ELSE 99
        ok == /\ d.month \in 1..12
              /\ d.day \in 1..DaysInMonth(d.year, d.month)
              /\ Len(t) = 4 /\ hh <= 23 /\ mm <= 59
    IN  IF ok
        THEN [raised |-> NoExc,
              value |-> [year |-> d.year, month |-> d.month, day |-> d.day,
                         hour |-> hh, minute |-> mm]]
        ELSE [raised |-> "ParseError"]

\* (x * 10).round() / 10
RoundToGrid(x) == FDiv(FRound(FMulInt(10, x)), FromInt(10))

\* the detections the store may hold, as <<latitude, longitude (hundredths
\* of a degree), brightness, confidence, frp, year, month, day, the digits
\* of acq_time>>: the first two and the fifth lie in one grid cell, the
\* first two in the same month of different years; the third, fourth and
\* fifth have brightness 0 and three have frp 0; the sixth has a malformed
\* acquisition time
Stored ==
    << << 2850, 7800, 300, 80, 10, 2024, 3, 9, << 1, 0, 3, 0 >> >>,
       << 2850, 7800, 330, 50, 0, 2023, 3, 11, << 0, 4, 1, 5 >> >>,
       << 2860, 7810, 0, 100, 25, 2024, 11, 4, << 2, 3, 5, 9 >> >>,
       << 2855, 7800, 0, 0, 0, 2024, 3, 9, << 1, 0, 3, 0 >> >>,
       << 2850, 7800, 0, 70, 0, 2024, 11, 30, << 0, 0, 0, 0 >> >>,
       << 2850, 7800, 310, 0, 5, 2024, 3, 9, << 9, 9 >> >> >>

\* their coordinates, and the doubles of these
DetCoords == { Stored[i][k] : i \in DOMAIN Stored, k \in 1..2 }
DetCoord == [n \in DetCoords |-> Dec(n)]

\* the record of a detection, coord the doubles of the coordinates
Det(r, coord) ==
    [latitude |-> coord[r[1]], longitude |-> coord[r[2]],
     brightness |-> FromInt(r[3]), confidence |-> r[4], frp |-> FromInt(r[5]),
     acq_date |-> [year |-> r[6], month |-> r[7], day |-> r[8]],
     acq_time |-> r[9]]

Detections == << >> \o [i \in DOMAIN Stored |-> Det(Stored[i], DetCoord)]

WellFormed == 1..5
Malformed == Len(Stored)

\* the training floors of train_model
MinFires == 100
MinTargets == 50

\* detections spread over the region, one to a grid cell: the latitudes,
\* a tenth of a degree apart, in hundredths of a degree, and their doubles
SpreadLats == { 2000 + (10 * i) : i \in 1..(MinFires + 1) }
SpreadCoord == [n \in SpreadLats \cup {7800} |-> Dec(n)]

\* RoundToGrid, computed once for each coordinate that occurs
RoundedCoord ==
    [x \in { DetCoord[n] : n \in DetCoords } \cup Image(SpreadCoord)
        |-> RoundToGrid(x)]
Rounded(x) == Lookup(RoundedCoord, x, RoundToGrid(x))

\* the counts taken by grid cell alone
GroupSizes_by_cell(keys) ==
    [k \in { keys[i] : i \in 1..Len(keys) } |->
        Cardinality({ i \in 1..Len(keys) : keys[i][1] = k[1] })]

\* groupby(['grid_id', 'month']).size(): a count for every key that occurs
GroupSizes(keys) ==
    [k \in { keys[i] : i \in 1..Len(keys) } |->
        Cardinality({ i \in 1..Len(keys) : keys[i] = k })]

\* merge(fire_counts, how='left') then fillna(0), for the row with key k
HistoricalCount(sizes, k) == IF k \in DOMAIN sizes THEN sizes[k] ELSE 0

\* a function is worked out once when it is compared
Evaluated(f) == f = f

\* the result of an elementwise operation on a Series, from the table of its
\* results on the distinct entries
Elementwise(tbl, s) ==
    IF Evaluated(tbl) THEN << >> \o [i \in 1..Len(s) |-> tbl[s[i]]] ELSE << >>

\* the column c of a frame
Column(df, c) == << >> \o [i \in 1..Len(df) |-> df[i][c]]

\* df[c] = s
WithColumn(df, c, s) == << >> \o [i \in 1..Len(df) |-> df[i] @@ (c :> s[i])]

\* features_df['datetime'] = pd.to_datetime(...)
WithDatetime(df) ==
    WithColumn(df, "datetime",
               [i \in 1..Len(df) |->
                   ParseDatetime(df[i].acq_date, df[i].acq_time).value])

\* month, day_of_year, hour, is_weekend
WithTemporal(df) ==
    << >> \o [i \in 1..Len(df) |->
                df[i] @@ [month |-> df[i].datetime.month,
                          day_of_year |-> DayOfYear(df[i].datetime),
                          hour |-> df[i].datetime.hour,
                          is_weekend |-> Weekday(df[i].datetime) >= 5]]

\* (s * 10).round() / 10
RoundSeries(s) == Elementwise([x \in Values(s) |-> Rounded(x)], s)

\* lat_rounded, lon_rounded
WithRounded(df) ==
    WithColumn(WithColumn(df, "lat_rounded",
                          RoundSeries(Column(df, "latitude"))),
               "lon_rounded", RoundSeries(Column(df, "longitude")))

\* the decimal digits of n, as characters
DigitChars == << "0", "1", "2", "3", "4", "5", "6", "7", "8", "9" >>

RECURSIVE Digits(_)
Digits(n) ==
    IF n < 10 THEN << DigitChars[n + 1] >>
    ELSE Append(Digits(n \div 10), DigitChars[(n % 10) + 1])

\* str(x), k the integer nearest to 10 * x: str gives the shortest decimal
\* that reads back as x, which is k / 10 written with one digit after the
\* point when x is the double nearest to k / 10; any other double takes
\* more digits, and then x stands for its string
TenthsStr(x, k) ==
    IF FDiv(FromInt(k), FromInt(10)) = x
    THEN Digits(k \div 10) \o << ".", DigitChars[(k % 10) + 1] >>
    ELSE << x >>

\* astype(str) on one double, 0 <= x < 2^31 / 10
FloatStr(x) == TenthsStr(x, FCeil(FRound(FMulInt(10, x))))

\* FloatStr, computed once for each rounded coordinate that occurs
StrMemo == [x \in Image(RoundedCoord) |-> FloatStr(x)]
AsStr(x) == Lookup(StrMemo, x, FloatStr(x))

\* the grid id that leaves the longitude out
GridId_lat_only(lat_rounded, lon_rounded) == AsStr(lat_rounded) \o << "_" >>

\* str(lat_rounded) + '_' + str(lon_rounded), a string as the sequence of
\* its characters
GridId(lat_rounded, lon_rounded) ==
    AsStr(lat_rounded) \o << "_" >> \o AsStr(lon_rounded)

WithGridId(df) ==
    WithColumn(df, "grid_id",
               [i \in 1..Len(df) |-> GridId(df[i].lat_rounded,
                                            df[i].lon_rounded)])

\* the keys of groupby(['grid_id', 'month'])
GroupKeys(df) == << >> \o [i \in 1..Len(df) |-> << df[i].grid_id, df[i].month >>]

\* the merge of fire_counts into the frame, and fillna(0)
MergeCounts(df, keys, fire_counts) ==
    WithColumn(df, "historical_count",
               Elementwise([k \in Values(keys) |->
                               HistoricalCount(fire_counts, k)], keys))

WithHistoricalCount(df) ==
    MergeCounts(df, GroupKeys(df), GroupSizes(GroupKeys(df)))

\* Series / scalar
SeriesDiv(s, d) == Elementwise([v \in Values(s) |-> PDiv(v, d)], s)

\* whether an entry, a number of either kind, is the missing value
IsNaN(v) == ToString(v) = ToString(NaN)

\* an integer column as doubles, the missing entries kept
AsFloat(s) ==
    << >> \o [i \in 1..Len(s) |-> IF IsNaN(s[i]) THEN NaN ELSE FromInt(s[i])]

\* brightness_normalized, confidence_normalized, frp_normalized
WithNormalized(df) ==
    WithColumn(
        WithColumn(
            WithColumn(df, "brightness_normalized",
                       SeriesDiv(Column(df, "brightness"),
                                 SeriesMax(Column(df, "brightness")))),
            "confidence_normalized",
            SeriesDiv(AsFloat(Column(df, "confidence")), FromInt(100))),
        "frp_normalized",
        IF "frp" \in Columns(df)
        THEN SeriesDiv(Column(df, "frp"), SeriesMax(Column(df, "frp")))
        ELSE [i \in 1..Len(df) |-> Zero])

\* the season flags with December left out of the peak season
WithSeason_no_december(df) ==
    << >> \o [i \in 1..Len(df) |->
                df[i] @@ [is_peak_season |-> df[i].month \in {3, 4, 5, 10, 11},
                          is_post_harvest |-> df[i].month \in {4, 5, 11, 12}]]

\* is_peak_season, is_post_harvest
WithSeason(df) ==
    << >> \o [i \in 1..Len(df) |->
                df[i] @@ [is_peak_season |->
                              df[i].month \in {3, 4, 5, 10, 11, 12},
                          is_post_harvest |-> df[i].month \in {4, 5, 11, 12}]]

\* features_df[self.feature_columns + ['grid_id']].fillna(0)
Selected(df) ==
    << >> \o [i \in 1..Len(df) |->
                [latitude |-> FillNa(df[i].latitude),
                 longitude |-> FillNa(df[i].longitude),
                 month |-> df[i].month,
                 day_of_year |-> df[i].day_of_year,
                 hour |-> df[i].hour,
                 brightness_normalized |-> FillNa(df[i].brightness_normalized),
                 confidence_normalized |-> FillNa(df[i].confidence_normalized),
                 frp_normalized |-> FillNa(df[i].frp_normalized),
                 historical_count |-> df[i].historical_count,
                 is_weekend |-> df[i].is_weekend,
                 is_peak_season |-> df[i].is_peak_season,
                 is_post_harvest |-> df[i].is_post_harvest,
                 grid_id |-> df[i].grid_id]]

\* pd.DataFrame(fires_data) on a list of dicts: a column for every key that
\* occurs, NaN where a record has no such key
DataFrame(fires_data) ==
    << >> \o [i \in 1..Len(fires_data) |->
                [c \in UNION { DOMAIN fires_data[j] : j \in 1..Len(fires_data) }
                    |-> IF c \in DOMAIN fires_data[i] THEN fires_data[i][c]
                        ELSE NaN]]

\* the result is [self, raised, value]; value is the returned frame
prepare_features(self, fires_df) ==
    IF \E c \in {"acq_date", "acq_time"} : c \notin Columns(fires_df)
    THEN [self |-> self, raised |-> "KeyError"]
    ELSE IF \E i \in 1..Len(fires_df) :
                ParseDatetime(fires_df[i].acq_date,
                              fires_df[i].acq_time).raised # NoExc
    THEN [self |-> self, raised |-> "ParseError"]
    ELSE IF \E c \in {"latitude", "longitude", "brightness", "confidence"} :
                c \notin Columns(fires_df)
    THEN [self |-> self, raised |-> "KeyError"]
    ELSE [self |-> [self EXCEPT !.feature_columns = FeatureColumns],
          raised |-> NoExc,
          value |-> Selected(WithSeason(WithNormalized(WithHistoricalCount(
                        WithGridId(WithRounded(WithTemporal(
                            WithDatetime(fires_df))))))))]

(***************************************************************************)
(* The target builder and train_model                                      *)
(***************************************************************************)
\* a datetime in minutes, for comparison and timedelta arithmetic
Minutes(dt) == (Ordinal(dt) * 1440) + (dt.hour * 60) + dt.minute

\* the k-th smallest of the numbers ts[i], i in idx (sort_values)
KthSmallest(ts, idx, k) ==
    ts[CHOOSE i \in idx :
          /\ Cardinality({ j \in idx : ts[j] < ts[i] }) < k
          /\ k <= Cardinality({ j \in idx : ts[j] <= ts[i] })]

\* features_df['grid_id'].unique(): the row indices where a grid id first
\* appears, in order
RECURSIVE FirstsFrom(_, _, _)
FirstsFrom(grid, seen, i) ==
    IF i > Len(grid) THEN << >>
    ELSE IF grid[i] \in seen THEN FirstsFrom(grid, seen, i + 1)
    ELSE << i >> \o FirstsFrom(grid, seen \cup {grid[i]}, i + 1)

\* the rate without the cap at 1.0
ClippedRate_unclipped(count, window_days) ==
    FDiv(FromInt(count), FromInt(window_days))

\* min(count / window_days, 1.0)
ClippedRate(count, window_days) ==
    LET rate == FDiv(FromInt(count), FromInt(window_days))
    IN  IF FCmp(rate, One) <= 0 THEN rate ELSE One

\* the labels of one grid cell with one for the last row too
GridTargets_all(features_df, g, window_days) ==
    LET idx == { i \in 1..Len(features_df) : features_df[i].grid_id = g }
        ts  == [i \in 1..Len(features_df) |-> Minutes(features_df[i].datetime)]
    IN  [k \in 1..Cardinality(idx) |->
            LET current == KthSmallest(ts, idx, k)
                future  == current + (window_days * 1440)
                count   == Cardinality({ j \in idx :
                               ts[j] > current /\ ts[j] <= future })
            IN  [grid_id |-> g, datetime |-> current,
                 future_fire_probability |-> ClippedRate(count, window_days)]]

\* the labels of one grid cell: one for every row in time order but the last
GridTargets(features_df, g, window_days) ==
    LET idx == { i \in 1..Len(features_df) : features_df[i].grid_id = g }
        ts  == [i \in 1..Len(features_df) |-> Minutes(features_df[i].datetime)]
    IN  [k \in 1..(Cardinality(idx) - 1) |->
            LET current == KthSmallest(ts, idx, k)
                future  == current + (window_days * 1440)
                count   == Cardinality({ j \in idx :
                               ts[j] > current /\ ts[j] <= future })
            IN  [grid_id |-> g, datetime |-> current,
                 future_fire_probability |-> ClippedRate(count, window_days)]]

RECURSIVE TargetsFrom(_, _, _, _)
TargetsFrom(features_df, firsts, k, window_days) ==
    IF k > Len(firsts) THEN << >>
    ELSE GridTargets(features_df, features_df[firsts[k]].grid_id, window_days)
         \o TargetsFrom(features_df, firsts, k + 1, window_days)

\* labels for the rows in the order they come, one for every row but the
\* last, with no sort by datetime
create_prediction_targets_unsorted(features_df, window_days) ==
    [raised |-> NoExc,
     value |-> [i \in 1..(Len(features_df) - 1) |->
                  [grid_id |-> features_df[i].grid_id, datetime |-> i,
                   future_fire_probability |-> One]]]

\* the result is [raised, value]
create_prediction_targets(features_df, window_days) ==
    IF features_df = << >> THEN [raised |-> NoExc, value |-> << >>]
    ELSE IF "grid_id" \notin Columns(features_df)
         \/ "datetime" \notin Columns(features_df)
    THEN [raised |-> "KeyError"]
    ELSE LET grid == [i \in 1..Len(features_df) |-> features_df[i].grid_id]
         IN  [raised |-> NoExc,
              value |-> TargetsFrom(features_df, FirstsFrom(grid, {}, 1), 1,
                                    window_days)]

\* features_df.merge(targets_df, on=['grid_id'], how='inner'): the number
\* of rows
MergedRows(features_df, targets_df) ==
    Cardinality({ p \in (1..Len(features_df)) \X (1..Len(targets_df)) :
                    features_df[p[1]].grid_id = targets_df[p[2]].grid_id })

\* scaler.fit_transform and RandomForestRegressor.fit: the fitted pair is a
\* function of the training table, here of its size
Fit(self, rows) ==
    [self EXCEPT
        !.scaler = [fitted |-> TRUE, n |-> Len(self.feature_columns),
                    seed |-> 10 + (rows % 3)],
        !.model = [kind |-> "RandomForestRegressor", seed |-> 10 + (rows % 3)]]

\* the bundle save_model pickles
save_model(self) ==
    [model |-> self.model, scaler |-> self.scaler,
     feature_columns |-> self.feature_columns,
     model_version |-> self.model_version]

\* the floor with its boundary on the wrong side
BelowFloor_inclusive(fires_data) == Len(fires_data) <= MinFires

\* len(fires_data) < 100
BelowFloor(fires_data) == Len(fires_data) < MinFires

\* the fitted instance saved and the result record
TrainFitted(fitted) ==
    [self |-> fitted, disk |-> save_model(fitted), raised |-> NoExc,
     ret |-> [model_version |-> fitted.model_version,
              mse |-> << "mse", fitted.model.seed >>,
              r2_score |-> << "r2", fitted.model.seed >>,
              feature_importance |-> fitted.feature_columns]]

\* train_model from the targets ct = [raised, value] on
TrainOnTargets(dsk, pf, ct) ==
    IF ct.raised # NoExc
    THEN [self |-> pf.self, disk |-> dsk, raised |-> ct.raised, ret |-> None]
    ELSE IF Len(ct.value) < MinTargets
    THEN [self |-> pf.self, disk |-> dsk, raised |-> NoExc,
          ret |-> [error |-> "Insufficient target data for training"]]
    ELSE TrainFitted(Fit(pf.self, MergedRows(pf.value, ct.value)))

\* train_model from the features pf = [self, raised, value] on
TrainOnFeatures(dsk, pf) ==
    IF pf.raised # NoExc
    THEN [self |-> pf.self, disk |-> dsk, raised |-> pf.raised, ret |-> None]
    ELSE TrainOnTargets(dsk, pf, create_prediction_targets(pf.value, 7))

\* the result is [self, disk, ret, raised]
train_model(self, dsk, fires_data) ==
    IF BelowFloor(fires_data)
    THEN [self |-> self, disk |-> dsk, raised |-> NoExc,
          ret |-> [error |-> "Insufficient data for training"]]
    ELSE TrainOnFeatures(dsk, prepare_features(self, DataFrame(fires_data)))

\* RandomForestRegressor(...) before fit
Unfitted == [kind |-> "RandomForestRegressor", seed |-> 0]

\* train_model one statement at a time, for calls that run beside others on
\* the shared instance: the result is [self, disk, pc, ret, raised], pc where
\* the call stands afterwards.

\* The call ends with an exception or a return value
TrainEnds(self, dsk, ret_, raised_) ==
    [self |-> self, disk |-> dsk, pc |-> Idle, ret |-> ret_, raised |-> raised_]

\* the call goes on, to stand at the position to
TrainGoes(self, dsk, to) ==
    [self |-> self, disk |-> dsk, pc |-> to, ret |-> None, raised |-> NoExc]

\* the floor, pd.DataFrame and prepare_features; pf is what prepare_features
\* gives on the frame
TrainBegins(self, dsk, fires_data, pf) ==
    IF BelowFloor(fires_data)
    THEN TrainEnds(self, dsk, [error |-> "Insufficient data for training"],
                   NoExc)
    ELSE IF pf.raised # NoExc THEN TrainEnds(pf.self, dsk, None, pf.raised)
    ELSE TrainGoes(pf.self, dsk, "prepared")

\* the statement at the position at; pf the features of the call and ct its
\* targets
TrainContinues(self, dsk, at, pf, ct) ==
    IF at = "prepared"
    THEN (IF ct.raised # NoExc THEN TrainEnds(self, dsk, None, ct.raised)
          ELSE IF Len(ct.value) < MinTargets
          THEN TrainEnds(self, dsk,
                         [error |-> "Insufficient target data for training"],
                         NoExc)
          ELSE TrainGoes(self, dsk, "joined"))
    ELSE IF at = "joined"
    THEN TrainGoes([self EXCEPT !.scaler =
                        Fit(self, MergedRows(pf.value, ct.value)).scaler],
                   dsk, "scaled")
    ELSE IF at = "scaled"
    THEN TrainGoes([self EXCEPT !.model = Unfitted], dsk, "assigned")
    ELSE IF at = "assigned"
    THEN TrainGoes([self EXCEPT !.model =
                        Fit(self, MergedRows(pf.value, ct.value)).model],
                   dsk, "fitted")
    ELSE TrainEnds(self, save_model(self), TrainFitted(self).ret, NoExc)

(***************************************************************************)
(* Actions                                                                 *)
(***************************************************************************)
SetSelf(s) ==
    /\ model' = s.model
    /\ scaler' = s.scaler
    /\ feature_columns' = s.feature_columns
    /\ model_version' = s.model_version

\* fires_data of n records: a at the odd places and b at the even ones
Batch(n, a, b) ==
    << >> \o [i \in 1..n |-> Detections[IF i % 2 = 1 THEN a ELSE b]]

\* batch sizes around the floor of train_model
TrainSizes == {MinFires - 1, MinFires, MinFires + 1}

\* the two detections a batch is made of: all alike, well-formed and mixed,
\* and one with a malformed time
TrainPairs == { << 1, 1 >>, << 1, 2 >>, << 2, 3 >>, << 1, Malformed >> }

\* fires_data of n records like the first stored detection, each in a grid
\* cell of its own
SpreadBatch(n) ==
    << >> \o [i \in 1..n |->
                Det(<< 2000 + (10 * i), 7800 >> \o SubSeq(Stored[1], 3, 9),
                    SpreadCoord)]

\* the batch that is spread out, in the place of a pair
Spread == << 0, 0 >>

\* the fires_data a train call is given
FiresData(n, p) == IF p = Spread THEN SpreadBatch(n) ELSE Batch(n, p[1], p[2])

\* what the store may hold, as the size n and the pair <<a, b>> of the batch
\* a query for all of its rows gives
StoreContents ==
    { [n |-> n, a |-> p[1], b |-> p[2]] :
        n \in TrainSizes, p \in TrainPairs \cup {Spread} }

\* a store that is not read
Unread == [n |-> 0, a |-> 0, b |-> 0]

Init ==
    /\ model = NewInstance.model
    /\ scaler = NewInstance.scaler
    /\ feature_columns = NewInstance.feature_columns
    /\ model_version = NewInstance.model_version
    /\ disk \in {Absent} \cup Bundles
    /\ store \in StoreContents
    /\ pc = Idle
    /\ now = 1
    /\ op = "init"
    /\ arg = None
    /\ ret = None
    /\ raised = NoExc
    /\ log = << >>

\* the startup event of main.py: ml_model.load_model()
Startup ==
    \E r \in { load_model(Self, disk) } :
        /\ SetSelf(r.self)
        /\ op' = "load_model"
        /\ arg' = None
        /\ ret' = [value |-> r.ret]
        /\ raised' = NoExc
        /\ log' = << >>
        /\ UNCHANGED << disk, store, pc, now >>

\* coordinates a caller asks about, in hundredths of a degree, as doubles
PredictLats == {2000, 2005, 2850, 3200}
PredictLons == {7800, 8125}
Coord == [n \in PredictLats \cup PredictLons |-> Dec(n)]

Predict ==
    \E la \in PredictLats, lo \in PredictLons :
        \E r \in { predict_fire_probability(Self, disk, Instants[now],
                                            Coord[la], Coord[lo], 7) } :
            /\ SetSelf(r.self)
            /\ op' = "predict"
            /\ arg' = [lat |-> la, lon |-> lo]
            /\ ret' = r.ret
            /\ raised' = r.raised
            /\ log' = r.log
            /\ UNCHANGED << disk, store, pc, now >>

\* train_model on the shared instance, given every record of the store
Train ==
    \E r \in { train_model(Self, disk,
                            FiresData(store.n, << store.a, store.b >>)) } :
        /\ SetSelf(r.self)
        /\ disk' = r.disk
        /\ op' = "train"
        /\ arg' = store
        /\ ret' = r.ret
        /\ raised' = r.raised
        /\ log' = << >>
        /\ UNCHANGED << store, pc, now >>

(***************************************************************************)
(* POST /api/train-model                                                   *)
(***************************************************************************)
\* the floor of the endpoint
MinRows == 100

\* raise HTTPException(status_code=..., detail=...); HTTPException is a
\* subclass of Exception
HTTPException(self, dsk, status_code, detail) ==
    [self |-> self, disk |-> dsk, raised |-> "HTTPException",
     status_code |-> status_code, detail |-> detail, ret |-> None]

\* str(e), as the exception it is taken of and the detail it carries
Str(e) ==
    IF e.raised = "HTTPException"
    THEN [of |-> e.raised, status_code |-> e.status_code, detail |-> e.detail]
    ELSE [of |-> e.raised]

\* the statements after result = ml_model.train_model(fire_data), r what the
\* call gave: an exception of the call leaves the try block
TrainAnswered(r) ==
    IF r.raised # NoExc THEN r
    ELSE IF "error" \in DOMAIN r.ret
    THEN HTTPException(r.self, r.disk, 400, r.ret.error)
    ELSE r

\* the try block from the floor on; n = len(fire_data)
TrainTried(self, dsk, n, pair) ==
    IF n < MinRows
    THEN HTTPException(self, dsk, 400, "Insufficient data for model training")
    ELSE TrainAnswered(train_model(self, dsk, FiresData(n, pair)))

\* except Exception as e: raise HTTPException(status_code=500,
\* detail=str(e)), for every exception that leaves the try block
ExceptException(r) ==
    IF r.raised # NoExc THEN HTTPException(r.self, r.disk, 500, Str(r))
    ELSE r

\* the response: the status and the body FastAPI answers with
Response(r) ==
    IF r.raised = NoExc THEN [status_code |-> 200, body |-> r.ret]
    ELSE [status_code |-> r.status_code, body |-> [detail |-> r.detail]]

\* the endpoint on the shared instance and the table
TrainPredictionModel ==
    \E r \in { ExceptException(TrainTried(Self, disk, store.n,
                                          << store.a, store.b >>)) } :
        /\ SetSelf(r.self)
        /\ disk' = r.disk
        /\ op' = "train_prediction_model"
        /\ arg' = store
        /\ ret' = Response(r)
        /\ raised' = r.raised
        /\ log' = << >>
        /\ UNCHANGED << store, pc, now >>

\* what the store holds where calls run beside each other: records of one
\* cell, records of cells of their own, and a record with a malformed time
SharedStores ==
    { s \in StoreContents :
        /\ s.n = MinFires
        /\ << s.a, s.b >> \in { << 1, 1 >>, Spread, << 1, Malformed >> } }

InitShared ==
    /\ model = NewInstance.model
    /\ scaler = NewInstance.scaler
    /\ feature_columns = NewInstance.feature_columns
    /\ model_version = NewInstance.model_version
    /\ disk \in {Absent} \cup Bundles
    /\ store \in SharedStores
    /\ pc = Idle
    /\ now = 1
    /\ op = "init"
    /\ arg = None
    /\ ret = None
    /\ raised = NoExc
    /\ log = << >>

\* a train_model call starts on the shared instance
TrainBegin ==
    /\ pc = Idle
    /\ \E fd \in { FiresData(store.n, << store.a, store.b >>) } :
       \E r \in { TrainBegins(Self, disk, fd,
                              prepare_features(Self, DataFrame(fd))) } :
            /\ SetSelf(r.self)
            /\ disk' = r.disk
            /\ pc' = r.pc
            /\ op' = "train"
            /\ arg' = store
            /\ ret' = r.ret
            /\ raised' = r.raised
            /\ log' = << >>
            /\ UNCHANGED << store, now >>

\* the call in progress runs its next statement
TrainStep ==
    /\ pc # Idle
    /\ \E pf \in { prepare_features(Self,
                        DataFrame(FiresData(store.n,
                                            << store.a, store.b >>))) } :
       \E r \in { TrainContinues(Self, disk, pc, pf,
                                 create_prediction_targets(pf.value, 7)) } :
            /\ SetSelf(r.self)
            /\ disk' = r.disk
            /\ pc' = r.pc
            /\ op' = "train"
            /\ arg' = store
            /\ ret' = r.ret
            /\ raised' = r.raised
            /\ log' = << >>
            /\ UNCHANGED << store, now >>

\* time passes
Tick ==
    /\ now < Len(Instants)
    /\ now' = now + 1
    /\ UNCHANGED << model, scaler, feature_columns, model_version, disk,
                    store, pc, op, arg, ret, raised, log >>

\* generate_grid_predictions on the shared instance
GenerateGrid ==
    \E g \in DOMAIN GridHundredths :
        \E a \in { GridArgs[g] }, dt \in { Instants[now] } :
        \E r \in { generate_grid_predictions(Self, disk, dt, a.bounds,
                                             a.grid_size) } :
            /\ SetSelf(r.self)
            /\ op' = "grid"
            /\ arg' = [grid |-> g]
            /\ ret' = [value |-> r.ret]
            /\ raised' = r.raised
            /\ log' = r.log
            /\ UNCHANGED << disk, store, pc, now >>

(***************************************************************************)
(* POST /api/generate-predictions                                          *)
(***************************************************************************)
\* FirePrediction(...) for one entry of the result, made at the instant dt
FirePrediction(pred, dt) ==
    [latitude |-> pred.latitude, longitude |-> pred.longitude,
     prediction_date |-> [now |-> dt, days |-> 7],
     probability |-> pred.probability, risk_level |-> pred.risk_level,
     model_version |-> pred.model_version,
     features_used |-> "lat,lon,temporal,seasonal"]

\* a session closed without db.commit()
Committed_never(table, pending) == table

\* db.add(prediction) for every row of pending, then db.commit(): the
\* fire_predictions table afterwards
Committed(table, pending) == table \o pending

\* the endpoint from the result r of generate_grid_predictions on; the
\* result is [table, raised, ret]
PredictionsStored(table, r, dt) ==
    IF r.raised # NoExc
    THEN [table |-> table, raised |-> "HTTPException",
          ret |-> [status_code |-> 500, body |-> [detail |-> Str(r)]]]
    ELSE [table |->
              Committed(table,
                        << >> \o [i \in 1..Len(r.ret) |->
                                    FirePrediction(r.ret[i], dt)]),
          raised |-> NoExc,
          ret |-> [status_code |-> 200,
                   body |-> [status |-> "success",
                             predictions_generated |-> Len(r.ret),
                             predictions |-> r.ret]]]

\* the most rows the fire_predictions table is followed to
MaxStored == 4

\* a started server and an empty fire_predictions table
InitPredictions ==
    /\ model = NewInstance.model
    /\ scaler = NewInstance.scaler
    /\ feature_columns = NewInstance.feature_columns
    /\ model_version = NewInstance.model_version
    /\ disk \in {Absent} \cup Bundles
    /\ store = << >>
    /\ pc = Idle
    /\ now = 1
    /\ op = "init"
    /\ arg = None
    /\ ret = None
    /\ raised = NoExc
    /\ log = << >>

\* the endpoint on the shared instance and the fire_predictions table
GeneratePredictions ==
    /\ Len(store) <= MaxStored
    /\ \E g \in DOMAIN GridHundredths :
        \E a \in { GridArgs[g] }, dt \in { Instants[now] } :
        \E r \in { generate_grid_predictions(Self, disk, dt, a.bounds,
                                             a.grid_size) } :
        \E e \in { PredictionsStored(store, r, dt) } :
            /\ SetSelf(r.self)
            /\ store' = e.table
            /\ op' = "generate_predictions"
            /\ arg' = [grid |-> g]
            /\ ret' = e.ret
            /\ raised' = e.raised
            /\ log' = r.log
            /\ UNCHANGED << disk, pc, now >>

\* the longest batch prepare_features is given on its own
MaxBatch == 3

\* batches of well-formed detections, as their places in Detections
FeatureBatches == UNION { [1..n -> WellFormed] : n \in 1..MaxBatch }

BatchOf(places) == << >> \o [i \in 1..Len(places) |-> Detections[places[i]]]

InitFeatures ==
    /\ model = NewInstance.model
    /\ scaler = NewInstance.scaler
    /\ feature_columns = NewInstance.feature_columns
    /\ model_version = NewInstance.model_version
    /\ disk = Absent
    /\ store = Unread
    /\ pc = Idle
    /\ now = 1
    /\ op = "init"
    /\ arg \in [batch : FeatureBatches]
    /\ ret = None
    /\ raised = NoExc
    /\ log = << >>

\* prepare_features on the batch drawn
PrepareFeatures ==
    /\ op = "init"
    /\ \E r \in { prepare_features(Self, BatchOf(arg.batch)) } :
            /\ SetSelf(r.self)
            /\ op' = "prepare_features"
            /\ ret' = IF r.raised = NoExc THEN [value |-> r.value] ELSE None
            /\ raised' = r.raised
            /\ UNCHANGED << disk, store, pc, now, arg, log >>

\* coordinates at and around the halves of the 0.1-degree grid, in
\* hundredths of a degree, within the region the store takes
CellLats == {2000, 3004, 3005, 3006, 3015}
CellLons == {7800, 7805, 7815}
CellPoints == CellLats \X CellLons
CellCoord == [n \in CellLats \cup CellLons |-> Dec(n)]

\* records at the points given, the i-th with the other fields of the i-th
\* stored detection
CellBatch(points) ==
    << >> \o [i \in 1..Len(points) |->
                Det(points[i] \o SubSeq(Stored[i], 3, 9), CellCoord)]

InitCells ==
    /\ model = NewInstance.model
    /\ scaler = NewInstance.scaler
    /\ feature_columns = NewInstance.feature_columns
    /\ model_version = NewInstance.model_version
    /\ disk = Absent
    /\ store = Unread
    /\ pc = Idle
    /\ now = 1
    /\ op = "init"
    /\ arg \in [cells : CellPoints \X CellPoints]
    /\ ret = None
    /\ raised = NoExc
    /\ log = << >>

\* prepare_features on two records at the points drawn
PrepareCells ==
    /\ op = "init"
    /\ \E r \in { prepare_features(Self, CellBatch(arg.cells)) } :
            /\ SetSelf(r.self)
            /\ op' = "prepare_cells"
            /\ ret' = IF r.raised = NoExc THEN [value |-> r.value] ELSE None
            /\ raised' = r.raised
            /\ UNCHANGED << disk, store, pc, now, arg, log >>

\* the longest list of records with fields left out
MaxSparse == 2

\* the numeric fields of a record
Numeric == {"brightness", "confidence", "frp"}

\* lists of records, as the place in Detections and the fields left out of
\* each
SparseBatches ==
    UNION { [1..n -> (1..3) \X (SUBSET Numeric)] : n \in 1..MaxSparse }

\* the record d without the fields in missing
Without(d, missing) == [c \in (DOMAIN d) \ missing |-> d[c]]

SparseBatch(batch) ==
    << >> \o [i \in 1..Len(batch) |->
                Without(Detections[batch[i][1]], batch[i][2])]

InitSparse ==
    /\ model = NewInstance.model
    /\ scaler = NewInstance.scaler
    /\ feature_columns = NewInstance.feature_columns
    /\ model_version = NewInstance.model_version
    /\ disk = Absent
    /\ store = Unread
    /\ pc = Idle
    /\ now = 1
    /\ op = "init"
    /\ arg \in [batch : SparseBatches]
    /\ ret = None
    /\ raised = NoExc
    /\ log = << >>

\* prepare_features on the frame of the records drawn
PrepareSparse ==
    /\ op = "init"
    /\ \E r \in { prepare_features(Self, DataFrame(SparseBatch(arg.batch))) } :
            /\ SetSelf(r.self)
            /\ op' = "prepare_sparse"
            /\ ret' = IF r.raised = NoExc THEN [value |-> r.value] ELSE None
            /\ raised' = r.raised
            /\ UNCHANGED << disk, store, pc, now, arg, log >>

(***************************************************************************)
(* NASAFirmsClient.remove_duplicates                                       *)
(***************************************************************************)
\* datetime.strptime(acq_date + ' ' + acq_time, "%Y-%m-%d %H%M") for an
\* acq_time of four digits: [raised, value]
Strptime(fire) ==
    LET t == fire.acq_time
        d == fire.acq_date
    IN  IF /\ Len(t) = 4
           /\ (10 * t[1]) + t[2] <= 23
           /\ (10 * t[3]) + t[4] <= 59
           /\ d.month \in 1..12
           /\ d.day \in 1..DaysInMonth(d.year, d.month)
        THEN [raised |-> NoExc,
              value |-> [year |-> d.year, month |-> d.month, day |-> d.day,
                         hour |-> (10 * t[1]) + t[2],
                         minute |-> (10 * t[3]) + t[4]]]
        ELSE [raised |-> "ValueError"]

\* abs(x - y) on doubles
AbsDiff(x, y) == IF FCmp(x, y) >= 0 THEN FSub(x, y) ELSE FSub(y, x)

\* the literal 0.01
LocationThreshold == Dec(1)

\* abs((fire_datetime - existing_datetime).total_seconds() / 3600)
\*     <= time_window_hours, on whole minutes
WithinWindow(fire, existing, time_window_hours) ==
    LET a == Minutes(Strptime(fire).value)
        b == Minutes(Strptime(existing).value)
    IN  (IF a >= b THEN a - b ELSE b - a) <= 60 * time_window_hours

\* the test that looks at the place alone
IsDuplicate_place_only(fire, existing, time_window_hours) ==
    /\ FCmp(AbsDiff(fire.latitude, existing.latitude), LocationThreshold) < 0
    /\ FCmp(AbsDiff(fire.longitude, existing.longitude), LocationThreshold) < 0

\* time_diff <= time_window_hours and lat_diff < 0.01 and lon_diff < 0.01
IsDuplicate(fire, existing, time_window_hours) ==
    /\ WithinWindow(fire, existing, time_window_hours)
    /\ FCmp(AbsDiff(fire.latitude, existing.latitude), LocationThreshold) < 0
    /\ FCmp(AbsDiff(fire.longitude, existing.longitude), LocationThreshold) < 0

\* the loop over fires from the k-th on, unique_fires what is kept so far
RECURSIVE DedupLoop(_, _, _, _)
DedupLoop(fires, k, unique_fires, time_window_hours) ==
    IF k > Len(fires) THEN unique_fires
    ELSE DedupLoop(fires, k + 1,
                   IF \E i \in 1..Len(unique_fires) :
                         IsDuplicate(fires[k], unique_fires[i],
                                     time_window_hours)
                   THEN unique_fires
                   ELSE Append(unique_fires, fires[k]),
                   time_window_hours)

\* the result is [raised, value]
remove_duplicates(fires, time_window_hours) ==
    IF \E k \in 1..Len(fires) : Strptime(fires[k]).raised # NoExc
    THEN [raised |-> "ValueError"]
    ELSE [raised |-> NoExc,
          value |-> DedupLoop(fires, 1, << >>, time_window_hours)]

\* the longest list remove_duplicates is given
MaxFires == 3

\* fetched records as <<latitude, longitude (thousandths of a degree), the
\* day of March 2024, the digits of acq_time, source>>: the second lies
\* 0.005 degrees from the first and from the third, the third and the fourth
\* are 0.01 degrees further north each, the seventh 0.02 degrees east; the
\* fifth is two hours after the first to the minute, the sixth and eighth a
\* minute more; the ninth is the first as another source reports it
Fetched ==
    << << 28500, 78000, 9, << 1, 0, 0, 0 >>, "MODIS_NRT" >>,
       << 28505, 78005, 9, << 1, 0, 0, 0 >>, "MODIS_NRT" >>,
       << 28510, 78000, 9, << 1, 0, 0, 0 >>, "MODIS_NRT" >>,
       << 28520, 78000, 9, << 1, 0, 0, 0 >>, "MODIS_NRT" >>,
       << 28500, 78000, 9, << 1, 2, 0, 0 >>, "MODIS_NRT" >>,
       << 28500, 78000, 9, << 1, 2, 0, 1 >>, "MODIS_NRT" >>,
       << 28500, 78020, 9, << 1, 0, 0, 0 >>, "MODIS_NRT" >>,
       << 28505, 78005, 9, << 1, 2, 0, 1 >>, "MODIS_NRT" >>,
       << 28500, 78000, 9, << 1, 0, 0, 0 >>, "VIIRS_SNPP_NRT" >> >>

\* float(...) of the coordinates that occur
FetchedCoord ==
    [n \in { Fetched[i][k] : i \in DOMAIN Fetched, k \in 1..2 } |->
        FDiv(FromInt(n), FromInt(1000))]

\* the dicts of the fetched records
Fires ==
    << >> \o [i \in DOMAIN Fetched |->
                [latitude |-> FetchedCoord[Fetched[i][1]],
                 longitude |-> FetchedCoord[Fetched[i][2]],
                 acq_date |-> [year |-> 2024, month |-> 3,
                               day |-> Fetched[i][3]],
                 acq_time |-> Fetched[i][4],
                 source |-> Fetched[i][5]]]

\* lists of fetched records, as their places in Fires
FireLists == UNION { [1..n -> DOMAIN Fetched] : n \in 1..MaxFires }

FiresOf(places) == << >> \o [i \in 1..Len(places) |-> Fires[places[i]]]

InitDedup ==
    /\ model = NewInstance.model
    /\ scaler = NewInstance.scaler
    /\ feature_columns = NewInstance.feature_columns
    /\ model_version = NewInstance.model_version
    /\ disk = Absent
    /\ store = Unread
    /\ pc = Idle
    /\ now = 1
    /\ op = "init"
    /\ arg \in [fires : FireLists, time_window_hours : {1, 2}]
    /\ ret = None
    /\ raised = NoExc
    /\ log = << >>

\* remove_duplicates on the list drawn
RemoveDuplicates ==
    /\ op = "init"
    /\ \E r \in { remove_duplicates(FiresOf(arg.fires),
                                      arg.time_window_hours) } :
            /\ op' = "remove_duplicates"
            /\ ret' = IF r.raised = NoExc THEN [value |-> r.value] ELSE None
            /\ raised' = r.raised
            /\ UNCHANGED << model, scaler, feature_columns, model_version,
                            disk, store, pc, now, arg, log >>

\* remove_duplicates on what it returned
RemoveAgain ==
    /\ op = "remove_duplicates"
    /\ raised = NoExc
    /\ \E r \in { remove_duplicates(ret.value, arg.time_window_hours) } :
            /\ op' = "remove_again"
            /\ ret' = [value |-> r.value, first |-> ret.value]
            /\ raised' = r.raised
            /\ UNCHANGED << model, scaler, feature_columns, model_version,
                            disk, store, pc, now, arg, log >>

(***************************************************************************)
(* Refreshing the fire_detections table                                    *)
(***************************************************************************)
\* the table with no row; a table is the function from its rows to the
\* number of times each is stored
EmptyTable == << >>

\* a filter that finds no row
Existing_none(table, fire_data) == {}

\* db.query(FireDetection).filter(latitude ==, longitude ==, acq_date ==,
\* acq_time ==): the committed rows that match
Existing(table, fire_data) ==
    { row \in DOMAIN table :
        /\ row.latitude = fire_data.latitude
        /\ row.longitude = fire_data.longitude
        /\ row.acq_date = fire_data.acq_date
        /\ row.acq_time = fire_data.acq_time }

\* db.add(fire), and db.commit() at the end
Added(table, fire) ==
    IF fire \in DOMAIN table THEN [table EXCEPT ![fire] = @ + 1]
    ELSE table @@ (fire :> 1)

\* the loop over unique_fires from the k-th on: the session does not flush
\* before a query, so the filter sees the rows of committed only
RECURSIVE StoreLoop(_, _, _, _, _)
StoreLoop(committed, unique_fires, k, table, new_fires_count) ==
    IF k > Len(unique_fires)
    THEN [table |-> table, new_fires |-> new_fires_count]
    ELSE IF Existing(committed, unique_fires[k]) # {}
    THEN StoreLoop(committed, unique_fires, k + 1, table, new_fires_count)
    ELSE StoreLoop(committed, unique_fires, k + 1,
                   Added(table, unique_fires[k]), new_fires_count + 1)

\* the refresh from the list remove_duplicates gave, uf = [raised, value]:
\* the result is [table, raised, ret]
RefreshStored(table, uf) ==
    IF uf.raised # NoExc
    THEN [table |-> table, raised |-> uf.raised, ret |-> None]
    ELSE [table |-> StoreLoop(table, uf.value, 1, table, 0).table,
          raised |-> NoExc,
          ret |-> [status |-> "success",
                   new_fires |-> StoreLoop(table, uf.value, 1, table,
                                           0).new_fires,
                   total_fires |-> Len(uf.value)]]

\* the longest list a refresh fetches
MaxFeed == 2

\* the fetched records a feed is made of, as places in Fires
FeedPool == {1, 5, 6, 9}

Feeds == UNION { [1..n -> FeedPool] : n \in 1..MaxFeed }

\* unique_fires = nasa_client.remove_duplicates(all_fires), for every feed
UniqueFires ==
    [feed \in Feeds |-> remove_duplicates(FiresOf(feed), 2)]

InitRefresh ==
    /\ model = NewInstance.model
    /\ scaler = NewInstance.scaler
    /\ feature_columns = NewInstance.feature_columns
    /\ model_version = NewInstance.model_version
    /\ disk = Absent
    /\ store = EmptyTable
    /\ pc = Idle
    /\ now = 1
    /\ op = "init"
    /\ arg = None
    /\ ret = None
    /\ raised = NoExc
    /\ log = << >>

\* POST /api/refresh-fire-data
RefreshFireData ==
    \E feed \in Feeds :
        \E r \in { IF Evaluated(UniqueFires)
                   THEN RefreshStored(store, UniqueFires[feed])
                   ELSE None } :
            /\ store' = r.table
            /\ op' = "refresh_fire_data"
            /\ arg' = [feed |-> feed]
            /\ ret' = r.ret
            /\ raised' = r.raised
            /\ UNCHANGED << model, scaler, feature_columns, model_version,
                            disk, pc, now, log >>

\* the agent's tool refresh_nasa_data
RefreshNasaData ==
    \E feed \in Feeds :
        \E r \in { IF Evaluated(UniqueFires)
                   THEN RefreshStored(store, UniqueFires[feed])
                   ELSE None } :
            /\ store' = r.table
            /\ op' = "refresh_nasa_data"
            /\ arg' = [feed |-> feed]
            /\ ret' = r.ret
            /\ raised' = r.raised
            /\ UNCHANGED << model, scaler, feature_columns, model_version,
                            disk, pc, now, log >>

\* the days of the month and the hours a record and a prediction are dated
SeasonDays == {1, 9, 17, 28}
SeasonHours == {0, 10}

\* the instant drawn
SeasonInstant ==
    [year |-> 2024, month |-> arg.month, day |-> arg.day, hour |-> arg.hour,
     minute |-> 30]

\* one record of the first stored detection's place, dated at the instant
\* drawn
SeasonBatch ==
    << Det(<< 2850, 7800, 300, 80, 10, 2024, arg.month, arg.day,
              << arg.hour \div 10, arg.hour % 10, 3, 0 >> >>, DetCoord) >>

InitSeason ==
    /\ model = NewInstance.model
    /\ scaler = NewInstance.scaler
    /\ feature_columns = NewInstance.feature_columns
    /\ model_version = NewInstance.model_version
    /\ disk \in Bundles
    /\ store = Unread
    /\ pc = Idle
    /\ now = 1
    /\ op = "init"
    /\ arg \in [month : 1..12, day : SeasonDays, hour : SeasonHours]
    /\ ret = None
    /\ raised = NoExc
    /\ log = << >>

\* prepare_features on a record of the month drawn
SeasonFeatures ==
    /\ op = "init"
    /\ \E r \in { prepare_features(Self, SeasonBatch) } :
            /\ SetSelf(r.self)
            /\ op' = "season_features"
            /\ ret' = [train |-> r.value]
            /\ raised' = r.raised
            /\ UNCHANGED << disk, store, pc, now, arg, log >>

\* predict_fire_probability at an instant of the month drawn, with the
\* feature dict it builds
SeasonPredict ==
    /\ op = "season_features"
    /\ \E r \in { predict_fire_probability(Self, disk, SeasonInstant,
                                            DetCoord[2850], DetCoord[7800],
                                            7) } :
            /\ SetSelf(r.self)
            /\ op' = "season_predict"
            /\ ret' = [train |-> ret.train, value |-> r.ret,
                       features |-> PredictFeatures(DetCoord[2850],
                                                    DetCoord[7800],
                                                    SeasonInstant)]
            /\ raised' = r.raised
            /\ log' = r.log
            /\ UNCHANGED << disk, store, pc, now, arg >>

\* the longest frame create_prediction_targets is given on its own
MaxRows == 3

\* two grid ids
TargetCells ==
    << << "2", "8", ".", "5", "_", "7", "8", ".", "0" >>,
       << "2", "8", ".", "6", "_", "7", "8", ".", "0" >> >>

\* timestamps: a start, half a day later, a day later to the minute, a
\* minute after that, and seven days after the start to the minute
TargetTimes ==
    << [year |-> 2024, month |-> 2, day |-> 28, hour |-> 0,  minute |-> 0],
       [year |-> 2024, month |-> 2, day |-> 28, hour |-> 12, minute |-> 0],
       [year |-> 2024, month |-> 2, day |-> 29, hour |-> 0,  minute |-> 0],
       [year |-> 2024, month |-> 2, day |-> 29, hour |-> 0,  minute |-> 1],
       [year |-> 2024, month |-> 3, day |-> 6,  hour |-> 0,  minute |-> 0] >>

\* the rows frames are made of, as <<cell, time>>: every time in the first
\* cell, two of them in the second
TargetRows == ({1} \X DOMAIN TargetTimes) \cup ({2} \X {1, 3})

TargetFrames == UNION { [1..n -> TargetRows] : n \in 1..MaxRows }

\* the window lengths a caller passes: one day, and the default
Windows == {1, 7}

\* the frame of feature rows with their timestamps
TargetFrame(rows) ==
    << >> \o [i \in 1..Len(rows) |->
                [grid_id |-> TargetCells[rows[i][1]],
                 datetime |-> TargetTimes[rows[i][2]]]]

InitTargets ==
    /\ model = NewInstance.model
    /\ scaler = NewInstance.scaler
    /\ feature_columns = NewInstance.feature_columns
    /\ model_version = NewInstance.model_version
    /\ disk = Absent
    /\ store = Unread
    /\ pc = Idle
    /\ now = 1
    /\ op = "init"
    /\ arg \in [rows : TargetFrames, window_days : Windows]
    /\ ret = None
    /\ raised = NoExc
    /\ log = << >>

\* create_prediction_targets on the frame drawn
CreateTargets ==
    /\ op = "init"
    /\ \E r \in { create_prediction_targets(TargetFrame(arg.rows),
                                            arg.window_days) } :
            /\ op' = "create_prediction_targets"
            /\ ret' = IF r.raised = NoExc THEN [value |-> r.value] ELSE None
            /\ raised' = r.raised
            /\ UNCHANGED << model, scaler, feature_columns, model_version,
                            disk, store, pc, now, arg, log >>

Next == Startup \/ Predict \/ Train \/ Tick

Spec == Init /\ [][Next]_vars

NextEndpoint == Startup \/ Predict \/ TrainPredictionModel \/ Tick

SpecEndpoint == Init /\ [][NextEndpoint]_vars

NextPredictions == Startup \/ GeneratePredictions \/ Tick

SpecPredictions == InitPredictions /\ [][NextPredictions]_vars

NextGrid == Startup \/ Predict \/ GenerateGrid \/ Tick

SpecGrid == Init /\ [][NextGrid]_vars

NextFeatures == PrepareFeatures

SpecFeatures == InitFeatures /\ [][NextFeatures]_vars

NextCells == PrepareCells

SpecCells == InitCells /\ [][NextCells]_vars

NextShared == Startup \/ Predict \/ TrainBegin \/ TrainStep \/ Tick

SpecShared == InitShared /\ [][NextShared]_vars

NextDedup == RemoveDuplicates \/ RemoveAgain

SpecDedup == InitDedup /\ [][NextDedup]_vars

NextRefresh == RefreshFireData \/ RefreshNasaData

SpecRefresh == InitRefresh /\ [][NextRefresh]_vars

NextSeason == SeasonFeatures \/ SeasonPredict

SpecSeason == InitSeason /\ [][NextSeason]_vars

NextSparse == PrepareSparse

SpecSparse == InitSparse /\ [][NextSparse]_vars

NextTargets == CreateTargets

SpecTargets == InitTargets /\ [][NextTargets]_vars

(***************************************************************************)
(* Properties                                                              *)
(***************************************************************************)
ModelNotTrained == [error |-> "Model not trained"]
InsufficientData == [error |-> "Insufficient data for training"]
InsufficientTargets == [error |-> "Insufficient target data for training"]

\* C1: predict_fire_probability on an instance without a model, with no
\* bundle persisted, attempts load_model once and returns the marker
\* 'Model not trained': no prediction, no exception.  The disk holds no
\* bundle exactly when none was there at the start and no train has saved
\* one, so this covers every sequence of operations without a bundle.
C1_NotTrained ==
    (op = "predict" /\ disk = Absent)
        => /\ ret = ModelNotTrained
           /\ raised = NoExc
           /\ log = << [call |-> "load_model"] >>
           /\ model = None

\* a predict at a later instant, still without a bundle
C1_Witness ==
    /\ op = "predict"
    /\ disk = Absent
    /\ model = None
    /\ ret = ModelNotTrained
    /\ log = << [call |-> "load_model"] >>
    /\ now > 1

\* C2: train_model with fewer than 100 raw detections returns the marker
\* 'Insufficient data for training' whatever the records are (also when a
\* record could not be parsed, so nothing was built before the floor), and
\* with 100 or more it does not return that marker.
C2_RawFloor ==
    op = "train"
        => /\ arg.n < 100 => (ret = InsufficientData /\ raised = NoExc)
           /\ arg.n >= 100 => ret # InsufficientData

\* 99 records, one kind of which has a malformed time: the marker, no
\* parse failure
C2_Witness ==
    /\ op = "train"
    /\ arg.n = 99
    /\ arg.b = Malformed
    /\ ret = InsufficientData
    /\ raised = NoExc

\* C3: train_model with 100 identical detections returns the marker
\* 'Insufficient target data for training'.
C3_IdenticalFailAtTargets ==
    (op = "train" /\ arg.n = 100 /\ arg.a = arg.b /\ arg.a \in WellFormed)
        => (ret = InsufficientTargets /\ raised = NoExc)

\* C4: train_model with at least 100 well-formed detections returns a
\* result record or an error marker and raises nothing.
C4_TrainReturns ==
    (op = "train" /\ arg.n >= 100 /\ arg.a \in WellFormed /\ arg.b \in WellFormed)
        => /\ raised = NoExc
           /\ \/ "error" \in DOMAIN ret
              \/ DOMAIN ret = {"model_version", "mse", "r2_score",
                               "feature_importance"}

\* C5: the risk tier of a returned prediction is HIGH when the probability
\* is at least 0.7, MEDIUM when it is at least 0.4 and below 0.7, and LOW
\* otherwise, also below 0 and above 1.
C5_RiskTier ==
    (op = "predict" /\ "probability" \in DOMAIN ret)
        => /\ ret.probability >= 700 => ret.risk_level = "HIGH"
           /\ (ret.probability >= 400 /\ ret.probability < 700)
                  => ret.risk_level = "MEDIUM"
           /\ ret.probability < 400 => ret.risk_level = "LOW"

\* a prediction on the threshold 0.7
C5_Witness ==
    /\ op = "predict"
    /\ "probability" \in DOMAIN ret
    /\ ret.probability = 700
    /\ ret.risk_level = "HIGH"

\* the predict calls a grid run made, in order
Evaluations ==
    LET idx == { i \in 1..Len(log) : log[i].call = "predict_fire_probability" }
    IN  << >> \o [k \in 1..Cardinality(idx) |->
                    log[CHOOSE i \in idx :
                            Cardinality({ j \in idx : j <= i }) = k]]

\* C6: every element of the result of generate_grid_predictions has a
\* probability of at least 0.3, and every evaluated point whose prediction
\* succeeded with at least 0.3 is in the result exactly once, with that
\* prediction.
C6_Threshold ==
    (op = "grid" /\ raised = NoExc)
        => /\ \A i \in 1..Len(ret.value) : ret.value[i].probability >= 300
           /\ \A i \in 1..Len(ret.value) :
                \E k \in 1..Len(Evaluations) :
                    /\ Evaluations[k].latitude = ret.value[i].latitude
                    /\ Evaluations[k].longitude = ret.value[i].longitude
                    /\ "probability" \in DOMAIN Evaluations[k].ret
                    /\ Evaluations[k].ret.probability = ret.value[i].probability
           /\ \A k \in 1..Len(Evaluations) :
                ("probability" \in DOMAIN Evaluations[k].ret
                 /\ Evaluations[k].ret.probability >= 300)
                    => Cardinality({ i \in 1..Len(ret.value) :
                          /\ ret.value[i].latitude = Evaluations[k].latitude
                          /\ ret.value[i].longitude = Evaluations[k].longitude })
                       = 1

\* a grid run that kept some points and dropped others
C6_Witness ==
    /\ op = "grid"
    /\ raised = NoExc
    /\ Len(ret.value) > 0
    /\ \E k \in 1..Len(Evaluations) :
           /\ "probability" \in DOMAIN Evaluations[k].ret
           /\ Evaluations[k].ret.probability < 300

\* ceil((max - min) / step) + 1, in the arithmetic of the program
LatticeSize(min, max, step) == FCeil(FDiv(FSub(max, min), step)) + 1

\* C7: generate_grid_predictions evaluates
\* (ceil((lat_max - lat_min) / step) + 1) * (ceil((lon_max - lon_min) / step) + 1)
\* points, and no evaluated coordinate exceeds its maximum by a full step.
C7_LatticeCount ==
    (op = "grid" /\ raised = NoExc)
        => LET b == GridArgs[arg.grid].bounds
               s == GridArgs[arg.grid].grid_size
           IN  /\ Len(Evaluations)
                    = LatticeSize(b.lat_min, b.lat_max, s)
                      * LatticeSize(b.lon_min, b.lon_max, s)
               /\ \A k \in 1..Len(Evaluations) :
                    /\ FCmp(Evaluations[k].latitude, FAdd(b.lat_max, s)) < 0
                    /\ FCmp(Evaluations[k].longitude, FAdd(b.lon_max, s)) < 0

\* C8: the result of generate_grid_predictions is ordered by latitude and
\* then longitude: of two entries the earlier has the smaller latitude, or
\* the same latitude and the smaller longitude.
C8_RowMajor ==
    (op = "grid" /\ raised = NoExc)
        => \A i, j \in 1..Len(ret.value) :
              i < j =>
                 \/ FCmp(ret.value[i].latitude, ret.value[j].latitude) < 0
                 \/ /\ ret.value[i].latitude = ret.value[j].latitude
                    /\ FCmp(ret.value[i].longitude, ret.value[j].longitude) < 0

\* a result with two latitudes and two longitudes
C8_Witness ==
    /\ op = "grid"
    /\ raised = NoExc
    /\ \E i, j \in 1..Len(ret.value) :
          /\ i < j
          /\ ret.value[i].latitude # ret.value[j].latitude
          /\ FCmp(ret.value[j].longitude, ret.value[i].longitude) < 0
    /\ \E i, j \in 1..Len(ret.value) :
          /\ i < j
          /\ ret.value[i].latitude = ret.value[j].latitude

\* C9: the historical_count of every record is the number of records of
\* the batch in its grid cell and month, whatever their year and order; it
\* is at least 1 and the same within one cell and month.
C9_HistoricalCount ==
    op = "prepare_features"
        => /\ raised = NoExc
           /\ Len(ret.value) = Len(arg.batch)
           /\ \A i \in 1..Len(ret.value) :
                /\ ret.value[i].historical_count
                     = Cardinality({ j \in 1..Len(ret.value) :
                           /\ ret.value[j].grid_id = ret.value[i].grid_id
                           /\ Detections[arg.batch[j]].acq_date.month
                                = Detections[arg.batch[i]].acq_date.month })
                /\ ret.value[i].historical_count >= 1

\* two records of one cell in March of different years, the later first,
\* and one of the same cell in November
C9_Witness ==
    /\ op = "prepare_features"
    /\ arg.batch = << 1, 5, 2 >>
    /\ ret.value[1].historical_count = 2
    /\ ret.value[2].historical_count = 1
    /\ ret.value[3].historical_count = 2

\* a normalized value within [0, 1]
InUnit(v) == v # NaN /\ v # Inf /\ FCmp(v, Zero) >= 0 /\ FCmp(v, One) <= 0

\* the largest of the doubles s[i]
Largest(s) == s[CHOOSE i \in 1..Len(s) : \A j \in 1..Len(s) : FCmp(s[i], s[j]) >= 0]

\* C10: for a batch of non-negative values prepare_features does not fail;
\* brightness and frp are divided by their largest value in the batch and
\* confidence by 100, each result lies in [0, 1], and a column whose largest
\* value is 0 is normalized to 0.
C10_Normalized ==
    op = "prepare_features"
        => /\ raised = NoExc
           /\ LET raw  == BatchOf(arg.batch)
                  bmax == Largest(Column(raw, "brightness"))
                  fmax == Largest(Column(raw, "frp"))
              IN  \A i \in 1..Len(raw) :
                    /\ ret.value[i].brightness_normalized
                         = (IF bmax = Zero THEN Zero
                            ELSE FDiv(raw[i].brightness, bmax))
                    /\ ret.value[i].frp_normalized
                         = (IF fmax = Zero THEN Zero ELSE FDiv(raw[i].frp, fmax))
                    /\ ret.value[i].confidence_normalized
                         = FDiv(FromInt(raw[i].confidence), FromInt(100))
                    /\ InUnit(ret.value[i].brightness_normalized)
                    /\ InUnit(ret.value[i].frp_normalized)
                    /\ InUnit(ret.value[i].confidence_normalized)

\* a batch whose brightness column is all zero and whose frp column is not
C10_Witness ==
    /\ op = "prepare_features"
    /\ arg.batch = << 3, 4, 5 >>
    /\ raised = NoExc
    /\ \A i \in 1..3 : ret.value[i].brightness_normalized = Zero
    /\ ret.value[1].frp_normalized = One
    /\ ret.value[1].confidence_normalized = One

\* the tenths nearest to n hundredths
NearestTenths(n) ==
    { k \in {n \div 10, (n \div 10) + 1} : (10 * k) - n \in -5..5 }

\* k tenths written with one digit after the point
TenthsText(k) == Digits(k \div 10) \o << ".", DigitChars[(k % 10) + 1] >>

\* C11: the grid id of a record is made of its coordinates alone, each
\* rounded to a nearest tenth of a degree: two records have the same id
\* exactly when their rounded latitudes are equal and their rounded
\* longitudes are equal, whatever their other fields are.
C11_GridIdByRounding ==
    op = "prepare_cells"
        => /\ raised = NoExc
           /\ \A i \in 1..Len(ret.value) :
                \E klat \in NearestTenths(arg.cells[i][1]),
                   klon \in NearestTenths(arg.cells[i][2]) :
                    ret.value[i].grid_id
                        = TenthsText(klat) \o << "_" >> \o TenthsText(klon)
           /\ \A i, j \in 1..Len(ret.value) :
                (ret.value[i].grid_id = ret.value[j].grid_id)
                    <=> /\ RoundToGrid(CellCoord[arg.cells[i][1]])
                             = RoundToGrid(CellCoord[arg.cells[j][1]])
                        /\ RoundToGrid(CellCoord[arg.cells[i][2]])
                             = RoundToGrid(CellCoord[arg.cells[j][2]])

\* latitudes 30.04 and 30.05 at one longitude: one grid id, the half going
\* to the even tenth
C11_Witness ==
    /\ op = "prepare_cells"
    /\ arg.cells = << << 3004, 7800 >>, << 3005, 7800 >> >>
    /\ ret.value[1].grid_id = ret.value[2].grid_id
    /\ ret.value[1].grid_id = << "3", "0", ".", "0", "_", "7", "8", ".", "0" >>

\* the rows of the frame drawn that lie in the cell of the label l, later
\* than its timestamp and no later than window_days after it
FutureRows(l) ==
    { j \in 1..Len(arg.rows) :
        /\ TargetCells[arg.rows[j][1]] = l.grid_id
        /\ Minutes(TargetTimes[arg.rows[j][2]]) > l.datetime
        /\ Minutes(TargetTimes[arg.rows[j][2]])
             <= l.datetime + (arg.window_days * 24 * 60) }

\* C12: every label of create_prediction_targets belongs to a record of
\* its cell and is min(k / window_days, 1), k the number of records of the
\* same cell later than the record and at most window_days later; every
\* label lies in [0, 1].
C12_LabelValue ==
    op = "create_prediction_targets"
        => /\ raised = NoExc
           /\ \A n \in 1..Len(ret.value) :
                /\ \E j \in 1..Len(arg.rows) :
                      /\ TargetCells[arg.rows[j][1]] = ret.value[n].grid_id
                      /\ Minutes(TargetTimes[arg.rows[j][2]])
                           = ret.value[n].datetime
                /\ ret.value[n].future_fire_probability
                     = (IF Cardinality(FutureRows(ret.value[n]))
                              >= arg.window_days
                        THEN One
                        ELSE FDiv(FromInt(Cardinality(FutureRows(ret.value[n]))),
                                  FromInt(arg.window_days)))
                /\ InUnit(ret.value[n].future_fire_probability)

\* a window of one day, the rows out of time order: for the earliest
\* record the one half a day later and the one a day later to the minute
\* count, and 2 / 1 is clipped to 1; the second label counts one record
C12_Witness ==
    /\ op = "create_prediction_targets"
    /\ arg.window_days = 1
    /\ arg.rows = << << 1, 3 >>, << 1, 1 >>, << 1, 2 >> >>
    /\ Len(ret.value) = 2
    /\ ret.value[1].future_fire_probability = One
    /\ ret.value[1].datetime = Minutes(TargetTimes[1])
    /\ ret.value[2].future_fire_probability = One

\* the rows of the frame drawn in cell c, and those of them at minute t
RowsOf(c) == { j \in 1..Len(arg.rows) : arg.rows[j][1] = c }
RowsAt(c, t) == { j \in RowsOf(c) : Minutes(TargetTimes[arg.rows[j][2]]) = t }

\* the labels returned for cell c, and those of them at minute t
LabelsOf(c) == { n \in 1..Len(ret.value) : ret.value[n].grid_id = TargetCells[c] }
LabelsAt(c, t) == { n \in LabelsOf(c) : ret.value[n].datetime = t }

\* the latest minute among the rows of cell c
LastMinute(c) ==
    CHOOSE t \in { Minutes(TargetTimes[arg.rows[j][2]]) : j \in RowsOf(c) } :
        \A j \in RowsOf(c) : Minutes(TargetTimes[arg.rows[j][2]]) <= t

\* C13: create_prediction_targets returns n - 1 labels for a cell of n >= 2
\* records and none for a cell of fewer, so the sum of max(n - 1, 0) in
\* all; the labels of a cell are those of its records in time order with
\* the last one left out.
C13_LabelCount ==
    op = "create_prediction_targets"
        => /\ raised = NoExc
           /\ \A c \in DOMAIN TargetCells :
                /\ Cardinality(LabelsOf(c))
                     = (IF Cardinality(RowsOf(c)) >= 2
                        THEN Cardinality(RowsOf(c)) - 1 ELSE 0)
                /\ \A n, m \in LabelsOf(c) :
                      n < m => ret.value[n].datetime <= ret.value[m].datetime
                /\ \A j \in RowsOf(c) :
                      LET t == Minutes(TargetTimes[arg.rows[j][2]])
                      IN  Cardinality(LabelsAt(c, t))
                            = Cardinality(RowsAt(c, t))
                              - (IF t = LastMinute(c) THEN 1 ELSE 0)
           /\ Len(ret.value)
                = Cardinality(LabelsOf(1)) + Cardinality(LabelsOf(2))

\* two records of the first cell and one of the second: one label
C13_Witness ==
    /\ op = "create_prediction_targets"
    /\ arg.rows = << << 1, 5 >>, << 2, 1 >>, << 1, 2 >> >>
    /\ Len(ret.value) = 1
    /\ ret.value[1].grid_id = TargetCells[1]
    /\ ret.value[1].datetime = Minutes(TargetTimes[2])

\* C14: no two labels returned by create_prediction_targets have the same
\* grid id and the same timestamp.
C14_OneLabelPerCellAndTime ==
    (op = "create_prediction_targets" /\ raised = NoExc)
        => \A n, m \in 1..Len(ret.value) :
              (/\ ret.value[n].grid_id = ret.value[m].grid_id
               /\ ret.value[n].datetime = ret.value[m].datetime) => n = m

\* the grid cell of the stored detection d
CellOf(d) ==
    GridId(Rounded(Detections[d].latitude), Rounded(Detections[d].longitude))

\* the number of labels the batch of the last train call gives: one for
\* every record of a cell but the last
LabelsDerived ==
    IF << arg.a, arg.b >> = Spread THEN 0
    ELSE IF CellOf(arg.a) = CellOf(arg.b) THEN arg.n - 1
    ELSE arg.n - 2

\* C15: train_model with at least 100 well-formed detections that give
\* fewer than 50 labels returns the marker 'Insufficient target data for
\* training'; with 50 labels or more it goes on to fit and returns a result.
C15_TargetFloor ==
    (/\ op = "train"
     /\ arg.n >= MinFires
     /\ << arg.a, arg.b >> = Spread \/ {arg.a, arg.b} \subseteq WellFormed)
        => /\ raised = NoExc
           /\ IF LabelsDerived < MinTargets
              THEN ret = InsufficientTargets
              ELSE "model_version" \in DOMAIN ret

\* C16: a train_model call that fails (either insufficient-data marker, a
\* parse error or any other exception of the builders) leaves the estimator,
\* the scaler, the feature-column list, the model version and the persisted
\* bundle as they were before the call.
C16_FailedTrainChangesNothing ==
    [][(/\ op' = "train"
        /\ raised' # NoExc \/ ret' \in {InsufficientData, InsufficientTargets})
           => UNCHANGED << model, scaler, feature_columns, model_version,
                           disk >>]_vars

NormalizedOf ==
    [brightness |-> "brightness_normalized",
     confidence |-> "confidence_normalized",
     frp |-> "frp_normalized"]

\* C18: prepare_features does not fail when records lack brightness,
\* confidence or frp, in some records or in all of them, and the normalized
\* feature of a record without the field is 0.
C18_MissingNumericIsZero ==
    op = "prepare_sparse"
        => /\ raised = NoExc
           /\ \A i \in 1..Len(arg.batch) : \A c \in arg.batch[i][2] :
                 ret.value[i][NormalizedOf[c]] = Zero

\* the observation values a prediction stands on, in hundredths: 0.5, 0.7,
\* 0.5 and 1.0
StatedValues ==
    [brightness_normalized |-> 50, confidence_normalized |-> 70,
     frp_normalized |-> 50, historical_count |-> 100]

\* these as entries of a feature row
StatedEntries == [c \in DOMAIN StatedValues |-> F(Dec(StatedValues[c]))]

\* the features of a prediction for the point (la, lo), in hundredths of a
\* degree, at the instant dt: the coordinates, the calendar and the values
\* above
StatedFeatures(la, lo, dt) ==
    StatedEntries
    @@ [latitude |-> F(Coord[la]), longitude |-> F(Coord[lo]),
        month |-> I(dt.month), day_of_year |-> I(DayOfYear(dt)),
        hour |-> I(dt.hour), is_weekend |-> B(Weekday(dt) >= 5),
        is_peak_season |-> B(dt.month \in {3, 4, 5, 10, 11, 12}),
        is_post_harvest |-> B(dt.month \in {4, 5, 11, 12})]

\* the answer of the instance self with the probability given
AnswerOf(self, probability) ==
    [probability |-> probability, risk_level |-> RiskLevel(probability),
     prediction_days |-> 7, model_version |-> self.model_version]

\* the answer the instance self gives from the features feats
AnswerFrom(self, feats) ==
    IF self.model = None THEN ModelNotTrained
    ELSE AnswerOf(self,
             ModelPredict(self.model,
                 [row |-> [i \in 1..Len(self.feature_columns) |->
                              feats[self.feature_columns[i]]],
                  by |-> self.scaler.seed]))

\* C19: whatever the store holds, a predict call answers what the loaded
\* estimator and scaler give for the coordinates, the clock and the values
\* 0.5, 0.7, 0.5 and 1.0, and when a model was loaded before the call it
\* leaves estimator, scaler, feature columns, version and bundle as they were.
C19_PredictIgnoresStore ==
    [][Predict
         => /\ raised' = NoExc
            /\ ret' = AnswerFrom(Self', StatedFeatures(arg'.lat, arg'.lon,
                                                       Instants[now']))
            /\ model # None
                 => UNCHANGED << model, scaler, feature_columns,
                                 model_version, disk >>]_vars

\* a prediction by a model loaded before the call, with 101 records in the
\* store
C19_Witness ==
    /\ op = "predict"
    /\ "probability" \in DOMAIN ret
    /\ log = << >>
    /\ store.n = MinFires + 1

\* the rows of the join for the batch of the last train call: for every
\* cell, the number of its records times one less
JoinRows ==
    LET odd  == (arg.n + 1) \div 2
        even == arg.n \div 2
    IN  IF CellOf(arg.a) = CellOf(arg.b) THEN arg.n * (arg.n - 1)
        ELSE (odd * (odd - 1)) + (even * (even - 1))

\* C20: train_model on a well-formed batch with enough labels fits on a
\* training table that pairs every feature row of a cell with every label
\* of that cell: n_c * (n_c - 1) rows for a cell of n_c records.
C20_JoinOnCell ==
    (/\ op = "train"
     /\ arg.n >= MinFires
     /\ {arg.a, arg.b} \subseteq WellFormed
     /\ LabelsDerived >= MinTargets)
        => /\ raised = NoExc
           /\ model = Fit(Self, JoinRows).model

\* the months of the peak season and of the time after harvest
PeakMonths == {3, 4, 5, 10, 11, 12}
PostHarvestMonths == {4, 5, 11, 12}

\* C21: for every month, prepare_features and predict_fire_probability both
\* set is_peak_season exactly for the months 3, 4, 5, 10, 11, 12 and
\* is_post_harvest exactly for 4, 5, 11, 12; the two agree, and
\* is_post_harvest implies is_peak_season.
C21_SeasonFlags ==
    /\ op \in {"season_features", "season_predict"}
        => /\ raised = NoExc
           /\ ret.train[1].month = arg.month
           /\ ret.train[1].is_peak_season = (arg.month \in PeakMonths)
           /\ ret.train[1].is_post_harvest = (arg.month \in PostHarvestMonths)
           /\ ret.train[1].is_post_harvest => ret.train[1].is_peak_season
    /\ op = "season_predict"
        => /\ ret.features.month.v = arg.month
           /\ ret.features.is_peak_season.v = (arg.month \in PeakMonths)
           /\ ret.features.is_post_harvest.v
                = (arg.month \in PostHarvestMonths)
           /\ ret.features.is_peak_season.v = ret.train[1].is_peak_season
           /\ ret.features.is_post_harvest.v = ret.train[1].is_post_harvest
           /\ ret.features.is_post_harvest.v => ret.features.is_peak_season.v

\* both paths have run for December, in the peak season and after harvest
C21_Witness ==
    /\ op = "season_predict"
    /\ arg.month = 12
    /\ "probability" \in DOMAIN ret.value
    /\ ret.train[1].is_peak_season
    /\ ret.features.is_post_harvest.v

Triple(b) == << b.model, b.scaler, b.feature_columns >>

Near(x, y, w) ==
    /\ Minutes(Strptime(x).value) - Minutes(Strptime(y).value)
          \in (0 - (60 * w))..(60 * w)
    /\ FCmp(AbsDiff(x.latitude, y.latitude), Dec(1)) < 0
    /\ FCmp(AbsDiff(x.longitude, y.longitude), Dec(1)) < 0

\* out can be read off inp from left to right
Subsequence(out, inp) ==
    \E f \in [1..Len(out) -> 1..Len(inp)] :
        /\ \A i \in 1..Len(out) : inp[f[i]] = out[i]
        /\ \A i, j \in 1..Len(out) : i < j => f[i] < f[j]

\* C24: remove_duplicates returns a subsequence of its input in which no two
\* records are near-duplicates; the first record is kept, a record is left
\* out only when a near-duplicate that comes before it was kept, and a
\* second application returns the list unchanged.
C24_RemoveDuplicates ==
    /\ op = "remove_duplicates"
        => /\ raised = NoExc
           /\ Subsequence(ret.value, FiresOf(arg.fires))
           /\ ret.value[1] = FiresOf(arg.fires)[1]
           /\ \A i, j \in 1..Len(ret.value) :
                 i < j => ~Near(ret.value[i], ret.value[j],
                                arg.time_window_hours)
           /\ \A k \in 1..Len(arg.fires) :
                 \/ \E i \in 1..Len(ret.value) :
                       ret.value[i] = FiresOf(arg.fires)[k]
                 \/ \E j \in 1..(k - 1) :
                       /\ \E i \in 1..Len(ret.value) :
                             ret.value[i] = FiresOf(arg.fires)[j]
                       /\ Near(FiresOf(arg.fires)[j], FiresOf(arg.fires)[k],
                               arg.time_window_hours)
    /\ op = "remove_again" => (raised = NoExc /\ ret.value = ret.first)

\* of three records the second, 0.005 degrees from the first, was left out
\* and the third, 0.005 degrees from the second, was kept; the second
\* application has run
C24_Witness ==
    /\ op = "remove_again"
    /\ arg.fires = << 1, 2, 3 >>
    /\ ret.value = << Fires[1], Fires[3] >>

\* the four fields a refresh compares
KeyFields(row) ==
    << row.latitude, row.longitude, row.acq_date, row.acq_time >>

\* no two stored detections agree on latitude, longitude, acq_date and
\* acq_time
NoTwoAlike(table) ==
    /\ \A row \in DOMAIN table : table[row] = 1
    /\ \A r1, r2 \in DOMAIN table : KeyFields(r1) = KeyFields(r2) => r1 = r2

\* C25: every refresh, by the endpoint or by the agent, leaves a table in
\* which no two detections agree on latitude, longitude, acq_date and
\* acq_time; it reports new_fires <= total_fires, and new_fires = 0 when it
\* follows a refresh with the same feed.
C25_RefreshKeepsKeysApart ==
    [][op' \in {"refresh_fire_data", "refresh_nasa_data"}
         => /\ raised' = NoExc
            /\ NoTwoAlike(store')
            /\ ret'.new_fires <= ret'.total_fires
            /\ (op # "init" /\ arg' = arg) => ret'.new_fires = 0]_vars

\* a refresh found every record of its feed stored already, among them one
\* that two sources report
C25_Witness ==
    /\ op = "refresh_nasa_data"
    /\ arg.feed = << 9, 6 >>
    /\ ret.new_fires = 0
    /\ ret.total_fires = 2
    /\ Fires[1] \in DOMAIN store
    /\ Fires[9] \notin DOMAIN store

\* C26: the train-model endpoint answers 400 when the table holds fewer than
\* 100 rows, and 400 when train_model returns an error marker.
C26_BadRequest ==
    (op = "train_prediction_model" /\ arg.n < MinRows)
        => ret.status_code = 400

\* the calls a run without a model leaves in the log: a load attempt before
\* every prediction, each prediction answered with the marker
LoadAtEveryPoint(lg) ==
    /\ Len(lg) > 0
    /\ Len(lg) % 2 = 0
    /\ \A i \in DOMAIN lg :
         IF i % 2 = 1 THEN lg[i].call = "load_model"
         ELSE /\ lg[i].call = "predict_fire_probability"
              /\ lg[i].raised = NoExc
              /\ lg[i].ret = [error |-> "Model not trained"]

\* C27: a generate-predictions request adds as many rows to fire_predictions
\* as the sequence it answers with is long; with no model loaded and no
\* bundle on disk it attempts a load at every lattice point, stores no row
\* and answers success with predictions_generated = 0.
C27_RowsAsReturned ==
    [][(op' = "generate_predictions" /\ now' = now)
         => /\ ret'.status_code = 200
            /\ ret'.body.status = "success"
            /\ ret'.body.predictions_generated = Len(ret'.body.predictions)
            /\ Len(store') = Len(store) + Len(ret'.body.predictions)
            /\ SubSeq(store', 1, Len(store)) = store
            /\ (model = None /\ disk = Absent)
                 => /\ raised' = NoExc
                    /\ ret'.body.predictions = << >>
                    /\ ret'.body.predictions_generated = 0
                    /\ store' = store
                    /\ model' = None
                    /\ LoadAtEveryPoint(log')]_vars

\* a request without a model and without a bundle answered success with no
\* prediction, after a load attempt at each of its lattice points
C27_Witness ==
    /\ op = "generate_predictions"
    /\ model = None
    /\ disk = Absent
    /\ ret.status_code = 200
    /\ ret.body.predictions_generated = 0
    /\ store = << >>
    /\ Len(log) >= 4

====
